---- MODULE Spec2Model ----
(***************************************************************************)
(* pgdiff (src/script.js): generateSchemaAlters(oldStatement, newStatement) *)
(* parses two schema texts and produces the ordered list of commands that  *)
(* turns the first schema into the second.                                 *)
(*                                                                         *)
(* Representation.                                                         *)
(*  - A text is the sequence of its ';'-separated statements; a statement  *)
(*    is a record [kind, name, vals, cols] holding what the regular        *)
(*    expressions of parseSchema capture from it. A '--' comment line is   *)
(*    a statement of its own: kind "comment" when a newline ends it, kind  *)
(*    "tailcomment" when it is the end of the text; its vals are the       *)
(*    tokens of the comment. The empty sequence is the empty or            *)
(*    whitespace-only text.                                                *)
(*  - A column fragment and a type text are sequences of whitespace        *)
(*    separated tokens (parseSchema itself splits on whitespace and joins  *)
(*    with one space), so equality of token sequences is equality of the   *)
(*    strings.                                                             *)
(*  - An output line is the sequence of the pieces the template string     *)
(*    concatenates: its first piece is the command keyword or the comment  *)
(*    marker, its last piece the terminator.                               *)
(*  - A JavaScript object used as an ordered map (schema.types,            *)
(*    schema.tables) is a sequence of entries with distinct names, in      *)
(*    insertion order. Names are ordinary identifiers: neither array-index *)
(*    like keys nor names of Object.prototype members are in the pools.    *)
(*  - null / undefined of a sequence-valued field is the empty sequence    *)
(*    (no parsed default, enum value list or definition is ever empty).    *)
(***************************************************************************)
EXTENDS Naturals, Sequences, FiniteSets, TLC

VARIABLES
    oldStatement,     \* argument of generateSchemaAlters
    newStatement,     \* argument of generateSchemaAlters
    pc,               \* position in generateSchemaAlters / generateSchemaAltersInternal
    oldSchema,        \* const oldSchema = parseSchema(oldStatement)
    newSchema,        \* const newSchema = parseSchema(newStatement)
    commands,         \* const commands = [] of generateSchemaAltersInternal
    oldTableMatched,  \* Set of old table names
    newTableMatched,  \* Set of names
    renameMap,        \* Map old table name -> new table name, as <<old, new>> entries
    tableReplacements,\* Map old table name -> new table name, as <<old, new>> entries
    idx,              \* position of the running for-loop
    error,            \* message of the raised Error (<<>>: none)
    result            \* the array generateSchemaAlters returns

vars == <<oldStatement, newStatement, pc, oldSchema, newSchema, commands,
          oldTableMatched, newTableMatched, renameMap, tableReplacements, idx, error, result>>

(***************************************************************************)
(* Bounds of the checked inputs.                                           *)
(***************************************************************************)
\* longest enum value list in the type-centred inputs
MaxVals == 2
\* longest column list in the table-centred inputs
MaxCols == 5

(***************************************************************************)
(* Generic helpers.                                                        *)
(***************************************************************************)
Range(s) == {s[i] : i \in 1..Len(s)}

Min(a, b) == IF a < b THEN a ELSE b

RECURSIVE Concat(_)
Concat(ss) == IF ss = <<>> THEN <<>> ELSE Head(ss) \o Concat(Tail(ss))

RECURSIVE JoinWith(_, _)
\* Array.prototype.join on pieces, the separator kept as a piece of its own
JoinWith(ss, sep) ==
    IF ss = <<>> THEN <<>>
    ELSE IF Len(ss) = 1 THEN Head(ss)
    ELSE Head(ss) \o <<sep>> \o JoinWith(Tail(ss), sep)

\* Object.keys(obj) of an ordered map
Keys(obj) == [i \in 1..Len(obj) |-> obj[i].name]

\* obj[name] is defined (own property)
Has(obj, name) == \E i \in 1..Len(obj) : obj[i].name = name

\* obj[name], for a name that is present
Get(obj, name) == obj[CHOOSE i \in 1..Len(obj) : obj[i].name = name]

\* obj[entry.name] = entry: an existing key keeps its place, a new key goes last
Put(obj, entry) ==
    IF Has(obj, entry.name)
    THEN [i \in 1..Len(obj) |-> IF obj[i].name = entry.name THEN entry ELSE obj[i]]
    ELSE Append(obj, entry)

\* String.prototype.toUpperCase on the tokens whose case the code inspects
Upper(tok) ==
    CASE tok = "default" -> "DEFAULT"
      [] tok = "not"     -> "NOT"
      [] tok = "null"    -> "NULL"
      [] tok = "check"   -> "CHECK"
      [] tok = "boolean" -> "BOOLEAN"
      [] tok = "text"    -> "TEXT"
      [] tok = "integer" -> "INTEGER"
      [] tok = "unique"  -> "UNIQUE"
      [] OTHER           -> tok

(***************************************************************************)
(* parseSchema                                                             *)
(***************************************************************************)
EmptySchema == [types |-> <<>>, tables |-> <<>>]

Stmt(kind, name, vals, cols) == [kind |-> kind, name |-> name, vals |-> vals, cols |-> cols]

\* the tokens of the pools that hold a '(' and those that hold a ')'
OpenTokens == {"(", "()", "(a)", "VARCHAR(100)", "VARCHAR(150)"}

CloseTokens == {")", "()", "(a)", "VARCHAR(100)", "VARCHAR(150)"}

\* how many of the tokens are in the set
TokensIn(tokens, S) == Cardinality({i \in 1..Len(tokens) : tokens[i] \in S})

\* a statement that holds the text CREATE TABLE <name> (<cols>): a CREATE TABLE
\* statement, or a last comment line without newline that quotes one (the
\* regular expression of line 391 is not anchored)
HoldsCreateTable(st) == st.kind = "table" \/ (st.kind = "tailcomment" /\ st.name # "")

\* numbers of '(' and of ')' in a statement: those of its syntax and those of
\* its tokens
OpenParens(st) ==
    (IF HoldsCreateTable(st) \/ st.kind \in {"unclosed", "enum"} THEN 1 ELSE 0)
      + TokensIn(st.vals, OpenTokens) + TokensIn(Concat(st.cols), OpenTokens)

CloseParens(st) ==
    (IF HoldsCreateTable(st) \/ st.kind = "enum" THEN 1 ELSE 0)
      + TokensIn(st.vals, CloseTokens) + TokensIn(Concat(st.cols), CloseTokens)

RECURSIVE CountOpen(_)
\* (cleaned.match(/\(/g) || []).length
CountOpen(text) == IF text = <<>> THEN 0 ELSE OpenParens(Head(text)) + CountOpen(Tail(text))

RECURSIVE CountClose(_)
\* (cleaned.match(/\)/g) || []).length
CountClose(text) == IF text = <<>> THEN 0 ELSE CloseParens(Head(text)) + CountClose(Tail(text))

\* a cleaning that leaves the comment lines in the text
CleanedKeepsComments(text) == text

\* statement.replace(/--.*?\n/g, '\n'): a comment line that ends in a newline
\* goes; a last comment line without newline ("tailcomment") stays
Cleaned(text) == SelectSeq(text, LAMBDA st : st.kind # "comment")

\* statement.trim().length > 0
NonBlank(text) == text # <<>>

ConstraintKeywords == {"PRIMARY", "FOREIGN", "CONSTRAINT", "UNIQUE"}

TypeStopWords == {"DEFAULT", "NOT", "NULL", "CHECK"}

\* x.match(/^(PRIMARY|FOREIGN|CONSTRAINT|UNIQUE)/i) on a column fragment
IsTableConstraint(def) == def # <<>> /\ Upper(def[1]) \in ConstraintKeywords

RECURSIVE TypeEnd(_, _)
\* the position after the type tokens: the while loop of line 430
TypeEnd(tokens, pos) ==
    IF pos <= Len(tokens) /\ Upper(tokens[pos]) \notin TypeStopWords
    THEN TypeEnd(tokens, pos + 1)
    ELSE pos

RECURSIVE ParseConstraints(_, _, _, _)
\* the while loop of lines 440-453; col is the column built so far
ParseConstraints(tableName, tokens, pos, col) ==
    IF pos > Len(tokens) THEN [ok |-> TRUE, col |-> col, error |-> <<>>]
    ELSE LET token == Upper(tokens[pos]) IN
         IF token = "NOT" /\ pos + 1 <= Len(tokens) /\ Upper(tokens[pos + 1]) = "NULL"
         THEN ParseConstraints(tableName, tokens, pos + 2, [col EXCEPT !.notNull = TRUE])
         ELSE IF token = "DEFAULT"
         THEN IF pos + 1 > Len(tokens)
              THEN [ok |-> FALSE, col |-> col,
                    error |-> <<"Column", col.name, "in table", tableName,
                                "has DEFAULT keyword but no value specified">>]
              ELSE [ok |-> TRUE,
                    col |-> [col EXCEPT !.defaultValue = SubSeq(tokens, pos + 1, Len(tokens))],
                    error |-> <<>>]
         ELSE ParseConstraints(tableName, tokens, pos + 1, col)

\* one column fragment: lines 418-456
ParseColumn(tableName, def) ==
    IF Len(def) < 2
    THEN [ok |-> FALSE, col |-> <<>>,
          error |-> <<"Invalid column definition in table", tableName, ":">> \o def]
    ELSE LET pos == TypeEnd(def, 2)
             col == [name |-> def[1], type |-> SubSeq(def, 2, pos - 1),
                     notNull |-> FALSE, defaultValue |-> <<>>]
         IN  IF col.type = <<>>
             THEN [ok |-> FALSE, col |-> <<>>,
                   error |-> <<"Column", def[1], "in table", tableName, "has no type specified">>]
             ELSE ParseConstraints(tableName, def, pos, col)

RECURSIVE ParseColumns(_, _, _)
\* for (const def of columnDefs): the first failing fragment raises
ParseColumns(tableName, defs, acc) ==
    IF defs = <<>> THEN [ok |-> TRUE, cols |-> acc, error |-> <<>>]
    ELSE LET r == ParseColumn(tableName, Head(defs)) IN
         IF r.ok THEN ParseColumns(tableName, Tail(defs), Append(acc, r.col))
         ELSE [ok |-> FALSE, cols |-> <<>>, error |-> r.error]

EnumType(name, values) ==
    [name |-> name, type |-> "enum", values |-> values, definition |-> <<>>]

CompositeType(name, definition) ==
    [name |-> name, type |-> "composite", values |-> <<>>, definition |-> definition]

\* one statement of the for loop of lines 361-465 applied to the schema so far
ParseStatement(schema, st) ==
    CASE st.kind = "badtype" ->
           [ok |-> FALSE, schema |-> schema, error |-> <<"Invalid CREATE TYPE syntax:", st.name, "...">>]
      [] st.kind = "enum" ->
           \* the value list of /ENUM\s*\(([^)]+)\)/ is not empty; 'ENUM ()' falls
           \* to the second alternative ([^;]+) and is stored as a composite type
           IF st.vals # <<>>
           THEN [ok |-> TRUE, error |-> <<>>,
                 schema |-> [schema EXCEPT !.types = Put(@, EnumType(st.name, st.vals))]]
           ELSE [ok |-> TRUE, error |-> <<>>,
                 schema |-> [schema EXCEPT !.types = Put(@, CompositeType(st.name, <<"ENUM", "()">>))]]
      [] st.kind = "composite" ->
           [ok |-> TRUE, error |-> <<>>,
            schema |-> [schema EXCEPT !.types = Put(@, CompositeType(st.name, st.vals))]]
      [] st.kind = "badtable" ->
           [ok |-> FALSE, schema |-> schema,
            error |-> <<"Incomplete or invalid CREATE TABLE statement:", st.name, "...">>]
      [] HoldsCreateTable(st) ->
           IF st.cols = <<>>
           THEN [ok |-> FALSE, schema |-> schema,
                 error |-> <<"Table", st.name, "has no columns defined">>]
           ELSE LET columnDefs == SelectSeq(st.cols, LAMBDA d : ~IsTableConstraint(d)) IN
                IF columnDefs = <<>>
                THEN [ok |-> FALSE, schema |-> schema,
                      error |-> <<"Table", st.name, "has no valid column definitions">>]
                ELSE LET r == ParseColumns(st.name, columnDefs, <<>>) IN
                     IF r.ok
                     THEN [ok |-> TRUE, error |-> <<>>,
                           schema |-> [schema EXCEPT
                                         !.tables = Put(@, [name |-> st.name, columns |-> r.cols])]]
                     ELSE [ok |-> FALSE, schema |-> schema, error |-> r.error]
      [] OTHER -> [ok |-> TRUE, schema |-> schema, error |-> <<>>]

RECURSIVE ParseStatements(_, _)
ParseStatements(schema, stmts) ==
    IF stmts = <<>> THEN [ok |-> TRUE, schema |-> schema, error |-> <<>>]
    ELSE LET r == ParseStatement(schema, Head(stmts)) IN
         IF r.ok THEN ParseStatements(r.schema, Tail(stmts))
         ELSE [ok |-> FALSE, schema |-> EmptySchema, error |-> r.error]

\* parseSchema(statement): [ok, schema, error]; ok = FALSE is a raised Error
parseSchema(statement) ==
    LET cleaned == Cleaned(statement)
        openParens == CountOpen(cleaned)
        closeParens == CountClose(cleaned)
    IN  IF cleaned = <<>> THEN [ok |-> TRUE, schema |-> EmptySchema, error |-> <<>>]
        ELSE IF openParens # closeParens
        THEN [ok |-> FALSE, schema |-> EmptySchema,
              error |-> <<"Unbalanced parentheses:", ToString(openParens), "opening,",
                          ToString(closeParens), "closing">>]
        ELSE ParseStatements(EmptySchema, cleaned)

(***************************************************************************)
(* Output lines.                                                           *)
(***************************************************************************)
\* `-- ERROR: ${error.message}`
ErrorLine(message) == <<"-- ERROR:">> \o message

OldInvalidLine ==
    <<"-- ERROR:", "Old schema appears to be invalid or incomplete. No valid CREATE TABLE or CREATE TYPE statements found.">>

NewInvalidLine ==
    <<"-- ERROR:", "New schema appears to be invalid or incomplete. No valid CREATE TABLE or CREATE TYPE statements found.">>

EnumErrorLine(typeName) ==
    <<"-- ERROR:", "Cannot modify existing enum value in", typeName, "\n">>

AddValueLine(typeName, value) == <<"ALTER TYPE", typeName, "ADD VALUE", "'", value, "'", ";">>

CompositeErrorLine(typeName) ==
    <<"-- ERROR:", "Composite type", typeName, "definition changed">>

RenameLine(oldTableName, newTableName) ==
    <<"ALTER TABLE", oldTableName, "RENAME TO", newTableName, ";">>

\* `${col.name} ${col.type}` + ' DEFAULT ...' + ' NOT NULL'
ColumnDef(col) ==
    <<col.name>> \o col.type
      \o (IF col.defaultValue # <<>> THEN <<"DEFAULT">> \o col.defaultValue ELSE <<>>)
      \o (IF col.notNull THEN <<"NOT NULL">> ELSE <<>>)

AddColumnLine(tableName, col) ==
    <<"ALTER TABLE", tableName, "ADD COLUMN">> \o ColumnDef(col) \o <<";">>

DropDefaultLine(tableName, colName) ==
    <<"ALTER TABLE", tableName, "ALTER COLUMN", colName, "DROP DEFAULT", ";">>

SetDefaultLine(tableName, colName, defaultValue) ==
    <<"ALTER TABLE", tableName, "ALTER COLUMN", colName, "SET DEFAULT">> \o defaultValue \o <<";">>

DropPkeyLine(tableName) ==
    <<"ALTER TABLE", tableName, "DROP CONSTRAINT IF EXISTS", tableName, "_pkey", ";">>

AddPkeyLine(tableName, colName) ==
    <<"ALTER TABLE", tableName, "ADD PRIMARY KEY", "(", colName, ")", ";">>

NotNullLine(tableName, colName, notNull) ==
    <<"ALTER TABLE", tableName, "ALTER COLUMN", colName,
      IF notNull THEN "SET NOT NULL" ELSE "DROP NOT NULL", ";">>

DropColumnLine(tableName, colName) ==
    <<"ALTER TABLE", tableName, "DROP COLUMN", colName, ";">>

CreateTypeLine(typeName, values) ==
    <<"CREATE TYPE", typeName, "AS ENUM", "(">>
      \o JoinWith([i \in 1..Len(values) |-> <<"'", values[i], "'">>], ",")
      \o <<")", ";">>

CreateTableLine(tableName, columns) ==
    <<"CREATE TABLE", tableName, "(">>
      \o JoinWith([i \in 1..Len(columns) |-> ColumnDef(columns[i])], ",")
      \o <<")", ";">>

MigrateCommentLine(oldTableName, newTableName) ==
    <<"-- Migrate data from", oldTableName, "to", newTableName>>

InsertSelectLine(oldTableName, newTableName, columnList) ==
    <<"INSERT INTO", newTableName, "(">> \o JoinWith([i \in 1..Len(columnList) |-> <<columnList[i]>>], ",")
      \o <<")", "SELECT">> \o JoinWith([i \in 1..Len(columnList) |-> <<columnList[i]>>], ",")
      \o <<"FROM", oldTableName, ";">>

CautionLine(tableName) ==
    <<"-- CAUTION:", "This will permanently delete table", tableName, "and all its data!">>

\* a DROP TABLE template that lacks the terminator
DropTableLineUnterminated(tableName) == <<"DROP TABLE", tableName>>

DropTableLine(tableName) == <<"DROP TABLE", tableName, ";">>

NotNullMessage(tableName, colName) ==
    <<"New column", tableName, ".", colName, "is NOT NULL without default">>

\* reading .length of oldType.values when oldType has no values property
TypeErrorMessage == <<"Cannot read properties of undefined (reading 'length')">>

(***************************************************************************)
(* generateSchemaAltersInternal: type changes (lines 52-76)                *)
(***************************************************************************)
\* a comparison loop that stops at the shorter of the two lists
EnumErrorsUpToShorter(typeName, oldValues, newValues) ==
    LET mismatch == SelectSeq([i \in 1..Min(Len(oldValues), Len(newValues)) |-> i],
                              LAMBDA i : oldValues[i] # newValues[i])
    IN  [k \in 1..Len(mismatch) |-> EnumErrorLine(typeName)]

\* the error comments of the loop of lines 62-66; newType.values[i] past the end
\* of the new list is undefined, which differs from every old value
EnumErrors(typeName, oldValues, newValues) ==
    LET mismatch == SelectSeq([i \in 1..Len(oldValues) |-> i],
                              LAMBDA i : i > Len(newValues) \/ oldValues[i] # newValues[i])
    IN  [k \in 1..Len(mismatch) |-> EnumErrorLine(typeName)]

\* an addition loop that starts one value too late
EnumAdditionsSkipsFirst(typeName, oldValues, newValues) ==
    [k \in 1..(Len(newValues) - Min(Len(oldValues) + 1, Len(newValues))) |->
        AddValueLine(typeName, newValues[Len(oldValues) + 1 + k])]

\* newType.values.slice(oldType.values.length), one ADD VALUE each
EnumAdditions(typeName, oldValues, newValues) ==
    [k \in 1..(Len(newValues) - Min(Len(oldValues), Len(newValues))) |->
        AddValueLine(typeName, newValues[Len(oldValues) + k])]

\* one iteration of the for loop over newSchema.types:
\* [cmds: the lines pushed, stop: the loop breaks, raised: a TypeError is thrown]
TypeChange(oldTypes, newType) ==
    IF ~Has(oldTypes, newType.name)
    THEN [cmds |-> <<>>, stop |-> FALSE, raised |-> FALSE]
    ELSE LET oldType == Get(oldTypes, newType.name) IN
         IF newType.type = "enum"
         THEN IF oldType.type # "enum"
              THEN [cmds |-> <<>>, stop |-> FALSE, raised |-> TRUE]
              ELSE [cmds |-> EnumErrors(newType.name, oldType.values, newType.values)
                               \o EnumAdditions(newType.name, oldType.values, newType.values),
                    stop |-> FALSE, raised |-> FALSE]
         ELSE IF newType.definition # oldType.definition
              THEN [cmds |-> <<CompositeErrorLine(newType.name)>>, stop |-> TRUE, raised |-> FALSE]
              ELSE [cmds |-> <<>>, stop |-> FALSE, raised |-> FALSE]

(***************************************************************************)
(* columnSimilarity (lines 79-95): the ratio as <<numerator, denominator>> *)
(***************************************************************************)
\* if (intersection < 3 && ...)
MinShared == 3

\* similarity < 0.7
SimilarityGuard == <<7, 10>>

\* score >= 0.5
RenameThreshold == <<1, 2>>

\* score >= 0.3
ReplaceThreshold == <<3, 10>>

Less(a, b) == a[1] * b[2] < b[1] * a[2]

\* a column of the name is in the list
HasNamed(cols, name) == \E i \in 1..Len(cols) : cols[i].name = name

ColNames(cols) == {cols[i].name : i \in 1..Len(cols)}

\* a similarity that counts columns instead of distinct column names
columnSimilarityCountsColumns(oldCols, newCols) ==
    IF Len(oldCols) = 0 /\ Len(newCols) = 0 THEN <<1, 1>>
    ELSE IF Len(oldCols) = 0 \/ Len(newCols) = 0 THEN <<0, 1>>
    ELSE LET intersection == Cardinality({i \in 1..Len(oldCols) : HasNamed(newCols, oldCols[i].name)})
             union == intersection + Cardinality({j \in 1..Len(newCols) :
                                                     ~HasNamed(oldCols, newCols[j].name)})
                        + Cardinality({i \in 1..Len(oldCols) : ~HasNamed(newCols, oldCols[i].name)})
             similarity == <<intersection, union>>
         IN  IF intersection < MinShared /\ Less(similarity, SimilarityGuard)
             THEN <<0, 1>>
             ELSE similarity

columnSimilarity(oldCols, newCols) ==
    IF Len(oldCols) = 0 /\ Len(newCols) = 0 THEN <<1, 1>>
    ELSE IF Len(oldCols) = 0 \/ Len(newCols) = 0 THEN <<0, 1>>
    ELSE LET oldNames == ColNames(oldCols)
             newNames == ColNames(newCols)
             intersection == Cardinality(oldNames \cap newNames)
             union == Cardinality(oldNames \cup newNames)
             similarity == <<intersection, union>>
         IN  IF intersection < MinShared /\ Less(similarity, SimilarityGuard)
             THEN <<0, 1>>
             ELSE similarity

RECURSIVE BestMatchFrom(_, _, _, _, _, _)
\* the inner for loop of lines 112-121 / 263-274 from position i on, with the
\* running bestMatch ("" is null) and bestScore
BestMatchFrom(oldColumns, newTables, matched, threshold, i, best) ==
    IF i > Len(newTables) THEN best.match
    ELSE IF newTables[i].name \in matched
    THEN BestMatchFrom(oldColumns, newTables, matched, threshold, i + 1, best)
    ELSE LET score == columnSimilarity(oldColumns, newTables[i].columns) IN
         IF Less(best.score, score) /\ ~Less(score, threshold)
         THEN BestMatchFrom(oldColumns, newTables, matched, threshold, i + 1,
                            [match |-> newTables[i].name, score |-> score])
         ELSE BestMatchFrom(oldColumns, newTables, matched, threshold, i + 1, best)

RECURSIVE BestMatchLastFrom(_, _, _, _, _, _)
\* a best-match loop that replaces the running best on an equal score
BestMatchLastFrom(oldColumns, newTables, matched, threshold, i, best) ==
    IF i > Len(newTables) THEN best.match
    ELSE IF newTables[i].name \in matched
    THEN BestMatchLastFrom(oldColumns, newTables, matched, threshold, i + 1, best)
    ELSE LET score == columnSimilarity(oldColumns, newTables[i].columns) IN
         IF ~Less(score, best.score) /\ ~Less(score, threshold)
         THEN BestMatchLastFrom(oldColumns, newTables, matched, threshold, i + 1,
                                [match |-> newTables[i].name, score |-> score])
         ELSE BestMatchLastFrom(oldColumns, newTables, matched, threshold, i + 1, best)

BestMatchPrefersLast(oldColumns, newTables, matched, threshold) ==
    BestMatchLastFrom(oldColumns, newTables, matched, threshold, 1, [match |-> "", score |-> <<0, 1>>])

BestMatch(oldColumns, newTables, matched, threshold) ==
    BestMatchFrom(oldColumns, newTables, matched, threshold, 1, [match |-> "", score |-> <<0, 1>>])

\* a loop body that does not mark the rename target as matched
RenameOneKeepsTarget(st, oldTable, newTables) ==
    IF Has(newTables, oldTable.name)
    THEN [st EXCEPT !.oldMatched = @ \cup {oldTable.name},
                    !.newMatched = @ \cup {oldTable.name}]
    ELSE LET bestMatch == BestMatch(oldTable.columns, newTables, st.newMatched, RenameThreshold)
         IN  IF bestMatch # ""
             THEN [renameMap |-> Append(st.renameMap, <<oldTable.name, bestMatch>>),
                   oldMatched |-> st.oldMatched \cup {oldTable.name},
                   newMatched |-> st.newMatched,
                   cmds |-> Append(st.cmds, RenameLine(oldTable.name, bestMatch))]
             ELSE st

\* the body of the loop of lines 100-130 for one old table; st holds renameMap,
\* the two matched sets and the commands pushed so far
RenameOne(st, oldTable, newTables) ==
    IF Has(newTables, oldTable.name)
    THEN [st EXCEPT !.oldMatched = @ \cup {oldTable.name},
                    !.newMatched = @ \cup {oldTable.name}]
    ELSE LET bestMatch == BestMatch(oldTable.columns, newTables, st.newMatched, RenameThreshold)
         IN  IF bestMatch # ""
             THEN [renameMap |-> Append(st.renameMap, <<oldTable.name, bestMatch>>),
                   oldMatched |-> st.oldMatched \cup {oldTable.name},
                   newMatched |-> st.newMatched \cup {bestMatch},
                   cmds |-> Append(st.cmds, RenameLine(oldTable.name, bestMatch))]
             ELSE st

RECURSIVE RenameLoopFrom(_, _, _, _)
RenameLoopFrom(st, oldTables, newTables, i) ==
    IF i > Len(oldTables) THEN st
    ELSE RenameLoopFrom(RenameOne(st, oldTables[i], newTables), oldTables, newTables, i + 1)

\* the whole loop of lines 100-130 on two table maps
RenameLoop(oldTables, newTables) ==
    RenameLoopFrom([renameMap |-> <<>>, oldMatched |-> {}, newMatched |-> {}, cmds |-> <<>>],
                   oldTables, newTables, 1)

(***************************************************************************)
(* generateSchemaAltersInternal: column changes of one matched table       *)
(* (lines 133-238)                                                         *)
(***************************************************************************)
\* columnMap.has(name), columnMap = new Map(oldColumns.map((c) => [c.name, c]))
HasCol(columns, name) == \E i \in 1..Len(columns) : columns[i].name = name

\* columnMap.get(name): a later entry of the same key replaces the earlier one
GetCol(columns, name) ==
    columns[CHOOSE i \in 1..Len(columns) :
               /\ columns[i].name = name
               /\ \A j \in (i + 1)..Len(columns) : columns[j].name # name]

\* the old table a matched new table is compared with (lines 140-146)
OldTableOf(renames, tableName) ==
    IF \E k \in 1..Len(renames) : renames[k][2] = tableName
    THEN renames[CHOOSE k \in 1..Len(renames) :
                    /\ renames[k][2] = tableName
                    /\ \A j \in 1..(k - 1) : renames[j][2] # tableName][1]
    ELSE tableName

\* oldSchema.tables[oldTableName] || []
ColumnsOf(tables, tableName) ==
    IF Has(tables, tableName) THEN Get(tables, tableName).columns ELSE <<>>

RECURSIVE AddColumns(_, _, _, _, _)
\* the loop of lines 152-169 from position i on; acc holds the lines pushed so far
AddColumns(tableName, oldColumns, newColumns, i, acc) ==
    IF i > Len(newColumns) THEN [cmds |-> acc, raised |-> FALSE, error |-> <<>>]
    ELSE LET newCol == newColumns[i] IN
         IF HasCol(oldColumns, newCol.name)
         THEN AddColumns(tableName, oldColumns, newColumns, i + 1, acc)
         ELSE IF newCol.notNull /\ newCol.defaultValue = <<>>
         THEN [cmds |-> acc, raised |-> TRUE, error |-> NotNullMessage(tableName, newCol.name)]
         ELSE AddColumns(tableName, oldColumns, newColumns, i + 1,
                         Append(acc, AddColumnLine(tableName, newCol)))

\* newCol.type.replace(/\s+PRIMARY KEY$/, '')
StripPrimaryKey(type) ==
    IF Len(type) >= 3 /\ type[Len(type) - 1] = "PRIMARY" /\ type[Len(type)] = "KEY"
    THEN SubSeq(type, 1, Len(type) - 2)
    ELSE type

\* type.includes('PRIMARY KEY')
HasPrimaryKey(type) ==
    \E i \in 1..(Len(type) - 1) : type[i] = "PRIMARY" /\ type[i + 1] = "KEY"

UpperType(type) == [i \in 1..Len(type) |-> Upper(type[i])]

\* oldTypeUpper.startsWith('VARCHAR'), on the type texts of the pools
StartsWithVarchar(type) ==
    type # <<>> /\ type[1] \in {"VARCHAR", "VARCHAR(100)", "VARCHAR(150)"}

NumericTypes ==
    {<<"SMALLINT">>, <<"INTEGER">>, <<"BIGINT">>, <<"DECIMAL">>, <<"NUMERIC">>, <<"REAL">>,
     <<"DOUBLE", "PRECISION">>, <<"SERIAL">>, <<"BIGSERIAL">>}

\* the USING clause of lines 191-201
UsingClause(colName, oldType, type) ==
    IF UpperType(type) = <<"BOOLEAN">>
    THEN IF StartsWithVarchar(UpperType(oldType)) \/ UpperType(oldType) = <<"TEXT">>
         THEN <<"USING CASE WHEN", colName, "= 'true' THEN true ELSE false END">>
         ELSE IF UpperType(oldType) \in NumericTypes
         THEN <<"USING", colName, "!= 0">>
         ELSE <<"USING", colName, "::boolean">>
    ELSE <<>>

AlterTypeLine(tableName, newCol, oldCol) ==
    LET type == StripPrimaryKey(newCol.type) IN
    <<"ALTER TABLE", tableName, "ALTER COLUMN", newCol.name, "TYPE">> \o type
       \o UsingClause(newCol.name, oldCol.type, type) \o <<";">>

\* a loop body that re-applies the new default before the type change
ModifyColumnSetsDefaultFirst(tableName, oldCol, newCol) ==
    (IF newCol.type # oldCol.type
     THEN (IF oldCol.defaultValue # <<>> THEN <<DropDefaultLine(tableName, newCol.name)>> ELSE <<>>)
          \o (IF newCol.defaultValue # <<>>
              THEN <<SetDefaultLine(tableName, newCol.name, newCol.defaultValue)>> ELSE <<>>)
          \o <<AlterTypeLine(tableName, newCol, oldCol)>>
          \o (IF HasPrimaryKey(oldCol.type) THEN <<DropPkeyLine(tableName)>> ELSE <<>>)
          \o (IF HasPrimaryKey(newCol.type) THEN <<AddPkeyLine(tableName, newCol.name)>> ELSE <<>>)
     ELSE IF newCol.defaultValue # oldCol.defaultValue
     THEN IF newCol.defaultValue # <<>>
          THEN <<SetDefaultLine(tableName, newCol.name, newCol.defaultValue)>>
          ELSE <<DropDefaultLine(tableName, newCol.name)>>
     ELSE <<>>)
    \o (IF newCol.notNull # oldCol.notNull
        THEN <<NotNullLine(tableName, newCol.name, newCol.notNull)>> ELSE <<>>)

\* one iteration of the loop of lines 172-230, for a column that has an old counterpart
ModifyColumn(tableName, oldCol, newCol) ==
    (IF newCol.type # oldCol.type
     THEN (IF oldCol.defaultValue # <<>> THEN <<DropDefaultLine(tableName, newCol.name)>> ELSE <<>>)
          \o <<AlterTypeLine(tableName, newCol, oldCol)>>
          \o (IF newCol.defaultValue # <<>>
              THEN <<SetDefaultLine(tableName, newCol.name, newCol.defaultValue)>> ELSE <<>>)
          \o (IF HasPrimaryKey(oldCol.type) THEN <<DropPkeyLine(tableName)>> ELSE <<>>)
          \o (IF HasPrimaryKey(newCol.type) THEN <<AddPkeyLine(tableName, newCol.name)>> ELSE <<>>)
     ELSE IF newCol.defaultValue # oldCol.defaultValue
     THEN IF newCol.defaultValue # <<>>
          THEN <<SetDefaultLine(tableName, newCol.name, newCol.defaultValue)>>
          ELSE <<DropDefaultLine(tableName, newCol.name)>>
     ELSE <<>>)
    \o (IF newCol.notNull # oldCol.notNull
        THEN <<NotNullLine(tableName, newCol.name, newCol.notNull)>> ELSE <<>>)

ModifyColumns(tableName, oldColumns, newColumns) ==
    Concat([i \in 1..Len(newColumns) |->
              IF HasCol(oldColumns, newColumns[i].name)
              THEN ModifyColumn(tableName, GetCol(oldColumns, newColumns[i].name), newColumns[i])
              ELSE <<>>])

\* the loop of lines 233-237
RemoveColumns(tableName, oldColumns, newColumns) ==
    Concat([i \in 1..Len(oldColumns) |->
              IF HasCol(newColumns, oldColumns[i].name) THEN <<>>
              ELSE <<DropColumnLine(tableName, oldColumns[i].name)>>])

\* a loop body that modifies the existing columns before it adds the new ones
TableChangesModifiesFirst(tableName, oldColumns, newColumns) ==
    LET added == AddColumns(tableName, oldColumns, newColumns, 1, <<>>) IN
    IF added.raised THEN added
    ELSE [cmds |-> ModifyColumns(tableName, oldColumns, newColumns) \o added.cmds
                     \o RemoveColumns(tableName, oldColumns, newColumns),
          raised |-> FALSE, error |-> <<>>]

\* the body of the loop of lines 133-238 for one matched table
TableChanges(tableName, oldColumns, newColumns) ==
    LET added == AddColumns(tableName, oldColumns, newColumns, 1, <<>>) IN
    IF added.raised THEN added
    ELSE [cmds |-> added.cmds \o ModifyColumns(tableName, oldColumns, newColumns)
                              \o RemoveColumns(tableName, oldColumns, newColumns),
          raised |-> FALSE, error |-> <<>>]

(***************************************************************************)
(* generateSchemaAltersInternal: lines 240-333                             *)
(***************************************************************************)
\* lines 241-249: only enum types are materialized
NewTypeLines(oldTypes, newTypes) ==
    Concat([i \in 1..Len(newTypes) |->
              IF ~Has(oldTypes, newTypes[i].name) /\ newTypes[i].type = "enum"
              THEN <<CreateTypeLine(newTypes[i].name, newTypes[i].values)>>
              ELSE <<>>])

\* lines 252-279: Map old table name -> new table name, as <<old, new>> entries
Replacements(oldTables, newTables, oldMatched, newMatched) ==
    Concat([i \in 1..Len(oldTables) |->
              IF oldTables[i].name \in oldMatched THEN <<>>
              ELSE LET bestMatch == BestMatch(oldTables[i].columns, newTables, newMatched,
                                              ReplaceThreshold)
                   IN  IF bestMatch # "" THEN << <<oldTables[i].name, bestMatch>> >> ELSE <<>>])

\* lines 287-293: the first replacement entry whose target is the new table ("" is null)
ReplacedBy(replacements, newTableName) ==
    IF \E k \in 1..Len(replacements) : replacements[k][2] = newTableName
    THEN replacements[CHOOSE k \in 1..Len(replacements) :
                         /\ replacements[k][2] = newTableName
                         /\ \A j \in 1..(k - 1) : replacements[j][2] # newTableName][1]
    ELSE ""

\* lines 309-323
MigrationLines(oldTables, oldTableName, newTable) ==
    IF oldTableName = "" THEN <<>>
    ELSE LET oldColumns == Get(oldTables, oldTableName).columns
             matching == SelectSeq(newTable.columns, LAMBDA c : HasCol(oldColumns, c.name))
             matchingColumns == [i \in 1..Len(matching) |-> matching[i].name]
         IN  IF Len(matchingColumns) > 0
             THEN <<MigrateCommentLine(oldTableName, newTable.name),
                    InsertSelectLine(oldTableName, newTable.name, matchingColumns)>>
             ELSE <<>>

\* lines 282-325
NewTableLines(oldTables, newTables, newMatched, replacements) ==
    Concat([i \in 1..Len(newTables) |->
              IF newTables[i].name \in newMatched THEN <<>>
              ELSE <<CreateTableLine(newTables[i].name, newTables[i].columns)>>
                   \o MigrationLines(oldTables, ReplacedBy(replacements, newTables[i].name),
                                     newTables[i])])

\* a drop loop that pushes no caution comment
DropLinesWithoutCaution(oldTables, oldMatched) ==
    Concat([i \in 1..Len(oldTables) |->
              IF oldTables[i].name \in oldMatched THEN <<>>
              ELSE <<DropTableLine(oldTables[i].name)>>])

\* a drop loop that keeps the old tables picked as the source of a replacement
DropLinesSkipsReplaced(oldTables, oldMatched) ==
    Concat([i \in 1..Len(oldTables) |->
              IF \/ oldTables[i].name \in oldMatched
                 \/ \E k \in 1..Len(tableReplacements) : tableReplacements[k][1] = oldTables[i].name
              THEN <<>>
              ELSE <<CautionLine(oldTables[i].name), DropTableLine(oldTables[i].name)>>])

\* lines 328-333
DropLines(oldTables, oldMatched) ==
    Concat([i \in 1..Len(oldTables) |->
              IF oldTables[i].name \in oldMatched THEN <<>>
              ELSE <<CautionLine(oldTables[i].name), DropTableLine(oldTables[i].name)>>])

(***************************************************************************)
(* The checked inputs: pairs <<old text, new text>> of four families.      *)
(***************************************************************************)
TableStmt(name, cols) == Stmt("table", name, <<>>, cols)

EnumStmt(name, values) == Stmt("enum", name, values, <<>>)

CompositeStmt(name, definition) == Stmt("composite", name, definition, <<>>)

\* all sequences over S of length 1..n
SeqsUpTo(S, n) == UNION {[1..k -> S] : k \in 1..n}

\* the texts of at most two statements of a pool, of distinct names
TextsOf(pool) ==
    {<<>>} \cup {<<s>> : s \in pool}
           \cup {pair \in pool \X pool : pair[1].name # pair[2].name}

\* --- types: CREATE TYPE statements over two names, one table
TypePool ==
    {EnumStmt("mood", v) : v \in SeqsUpTo({"a", "b"}, MaxVals)}
      \cup {EnumStmt("mood", <<>>), CompositeStmt("mood", <<"(", "x", "int", ")">>)}
      \cup {CompositeStmt("addr", <<"(", "x", "int", ")">>),
            CompositeStmt("addr", <<"(", "y", "int", ")">>),
            EnumStmt("addr", <<"a">>)}

TypeInputs ==
    {<<old \o <<TableStmt("p", << <<"id", "INT">> >>)>>, new \o <<TableStmt("p", cols)>> >> :
        old \in TextsOf(TypePool), new \in TextsOf(TypePool),
        cols \in { << <<"id", "INT">> >>, << <<"id", "INT">>, <<"x", "INT", "NOT", "NULL">> >> }}

\* --- tables: CREATE TABLE statements whose column lists differ in their names
ColumnNames == <<"a", "b", "c", "d", "e", "f", "g", "h", "i", "j">>

IntColumns(from, to) == [k \in 1..(to - from + 1) |-> <<ColumnNames[from + k - 1], "INT">>]

NameLists ==
    {IntColumns(1, 1), IntColumns(2, 2), IntColumns(1, 3),
     IntColumns(1, MaxCols), IntColumns(3, MaxCols + 2)}

TablePool(names) == {TableStmt(n, cols) : n \in names, cols \in NameLists}

TableInputs ==
    {<<old, new>> : old \in TextsOf(TablePool({"p", "q"})), new \in TextsOf(TablePool({"q", "r"}))}

\* --- columns: one table on each side, columns that differ in their attributes
FragmentsA ==
    {<<"a", "INT">>, <<"a", "TEXT">>, <<"a", "BOOLEAN">>, <<"a", "INT", "NOT", "NULL">>,
     <<"a", "INT", "DEFAULT", "0">>, <<"a", "INT", "default", "1">>,
     <<"a", "INT", "PRIMARY", "KEY">>, <<"a", "SERIAL", "PRIMARY", "KEY">>,
     <<"a", "VARCHAR(100)", "DEFAULT", "'x'", "NOT", "NULL">>}

FragmentsB ==
    {<<"b", "INT">>, <<"b", "INT", "NOT", "NULL">>, <<"b", "TEXT", "NOT", "NULL", "DEFAULT", "'x'">>}

ColumnLists ==
    {<<x>> : x \in FragmentsA} \cup {<<x, y>> : x \in FragmentsA, y \in FragmentsB}
      \cup {<< <<"a", "INT">>, <<"a", "TEXT">> >>,
            << <<"a", "INT">>, <<"PRIMARY", "KEY", "(a)">> >>}

ColumnInputs ==
    {<< <<TableStmt("p", old)>>, <<TableStmt(n, new)>> >> :
        old \in ColumnLists, new \in ColumnLists, n \in {"p", "r"}}

\* --- malformed, blank and ignored texts
EdgeTexts ==
    {<<>>,
     <<Stmt("comment", "", <<>>, <<>>)>>,
     <<Stmt("other", "", <<>>, <<>>)>>,
     <<Stmt("unclosed", "p", <<>>, <<>>)>>,
     <<Stmt("badtype", "CREATE TYPE mood", <<>>, <<>>)>>,
     <<Stmt("badtable", "CREATE TABLE p", <<>>, <<>>)>>,
     <<TableStmt("p", <<>>)>>,
     <<TableStmt("p", << <<"UNIQUE", "(a)">> >>)>>,
     <<TableStmt("p", << <<"a">> >>)>>,
     <<TableStmt("p", << <<"a", "DEFAULT", "0">> >>)>>,
     <<TableStmt("p", << <<"a", "INT", "DEFAULT">> >>)>>,
     <<Stmt("comment", "", <<>>, <<>>), TableStmt("p", << <<"a", "INT">> >>)>>,
     <<TableStmt("p", << <<"a", "INT">> >>), TableStmt("p", << <<"b", "INT">> >>)>>,
     <<TableStmt("p", << <<"a", "INT">> >>), Stmt("badtable", "CREATE TABLE q", <<>>, <<>>)>>,
     <<EnumStmt("mood", <<"a">>)>>,
     <<TableStmt("p", << <<"a", "INT">> >>)>>,
     <<TableStmt("p", << <<"a", "INT">>, <<"b", "INT", "NOT", "NULL">> >>)>>,
     <<Stmt("comment", "", <<"(">>, <<>>)>>,
     <<Stmt("comment", "", <<"(">>, <<>>), TableStmt("p", << <<"a", "INT">> >>)>>,
     <<Stmt("comment", "", <<"(">>, <<>>), Stmt("unclosed", "p", <<>>, <<>>)>>,
     <<Stmt("badtable", "CREATE TABLE q", <<>>, <<>>), Stmt("unclosed", "p", <<>>, <<>>)>>,
     <<CompositeStmt("addr", <<"(", "x", "int", ")">>), Stmt("unclosed", "p", <<>>, <<>>)>>,
     <<Stmt("comment", "", <<>>, <<>>), Stmt("tailcomment", "", <<>>, <<>>)>>,
     <<Stmt("tailcomment", "", <<>>, <<>>)>>,
     <<Stmt("tailcomment", "", <<"(">>, <<>>)>>,
     <<Stmt("tailcomment", "p", <<>>, << <<"a", "INT">> >>)>>,
     <<TableStmt("p", << <<"a", "INT">> >>), Stmt("tailcomment", "", <<")">>, <<>>)>>}

EdgeInputs == EdgeTexts \X EdgeTexts

\* --- the example of README.md (lines 47-81) and of test.js (lines 27-45), with
\* and without its CREATE TYPE statement
MoodStmt == EnumStmt("mood", <<"sad", "ok", "happy">>)

ScenarioOld ==
    <<TableStmt("person", << <<"id", "SERIAL", "PRIMARY", "KEY">>,
                             <<"name", "VARCHAR(100)">>,
                             <<"current_mood", "mood", "DEFAULT", "'ok'">> >>),
      TableStmt("test", << <<"id", "SERIAL", "PRIMARY", "KEY">> >>)>>

ScenarioNew ==
    <<TableStmt("user", << <<"id", "SERIAL", "PRIMARY", "KEY">>,
                           <<"name", "VARCHAR(150)">>,
                           <<"current_mood", "mood", "DEFAULT", "'happy'">>,
                           <<"age", "INT">> >>)>>

ScenarioInputs ==
    {<<ScenarioOld, ScenarioNew>>, <<(<<MoodStmt>> \o ScenarioOld), (<<MoodStmt>> \o ScenarioNew)>>}

\* --- type usage: columns whose type is an enum type of the schema, on tables
\* that are kept, renamed, replaced or created
UsageOldTypes == {<<>>, <<EnumStmt("mood", <<"a">>)>>}

UsageNewTypes ==
    {<<EnumStmt("mood", <<"a">>)>>,
     <<EnumStmt("mood", <<"a", "b">>)>>,
     <<EnumStmt("lvl", <<"a">>), EnumStmt("mood", <<"a">>)>>,
     <<EnumStmt("lvl", <<"a">>), EnumStmt("mood", <<"a", "b">>)>>}

UsageOldTables ==
    {<<TableStmt("p", << <<"id", "INT">> >>)>>,
     <<TableStmt("p", << <<"id", "INT">>, <<"m", "TEXT">> >>)>>,
     <<TableStmt("q", << <<"a", "INT">>, <<"b", "INT">>, <<"c", "INT">> >>),
       TableStmt("t", << <<"x", "INT">>, <<"y", "INT">>, <<"w", "INT">>, <<"v", "INT">>,
                         <<"s", "INT">> >>),
       TableStmt("z", << <<"k", "INT">> >>)>>}

UsageNewTables ==
    {<<TableStmt("p", << <<"id", "INT">>, <<"m", "mood">> >>)>>,
     <<TableStmt("p", << <<"id", "INT">> >>),
       TableStmt("r", << <<"id", "INT">>, <<"m", "mood">> >>)>>,
     <<TableStmt("u", << <<"a", "INT">>, <<"b", "INT">>, <<"c", "INT">>, <<"m", "lvl">> >>),
       TableStmt("t2", << <<"x", "INT">>, <<"y", "INT">>, <<"w", "INT">>, <<"m", "mood">>,
                          <<"n", "INT">> >>)>>}

UsageInputs ==
    {<<ot \o otab, nt \o ntab>> :
        ot \in UsageOldTypes, otab \in UsageOldTables,
        nt \in UsageNewTypes, ntab \in UsageNewTables}

Inputs ==
    TypeInputs \cup TableInputs \cup ColumnInputs \cup EdgeInputs \cup ScenarioInputs
       \cup UsageInputs

(***************************************************************************)
(* generateSchemaAlters and generateSchemaAltersInternal as a state        *)
(* machine: one step per parse, per loop iteration of the first three      *)
(* loops, and per later loop.                                              *)
(***************************************************************************)
IsEmptySchema(schema) == Len(schema.tables) = 0 /\ Len(schema.types) = 0

\* the first loop of generateSchemaAltersInternal that has an element to visit
GotoColumns == IF newSchema.tables = <<>> THEN "createTypes" ELSE "columns"

GotoRenames == IF oldSchema.tables = <<>> THEN GotoColumns ELSE "renames"

GotoTypes == IF newSchema.types = <<>> THEN GotoRenames ELSE "types"

\* a catch block that reports the error after the commands pushed so far
CatchResultKeepsPartial(partial, message) == Append(partial, ErrorLine(message))

\* the catch block of generateSchemaAlters (lines 37-40): its own commands array
\* is still empty there; partial is the array of generateSchemaAltersInternal
CatchResult(partial, message) == <<ErrorLine(message)>>

\* const oldSchema = parseSchema(oldStatement)
ParseOld ==
    /\ pc = "parseOld"
    /\ LET r == parseSchema(oldStatement) IN
       IF r.ok
       THEN /\ oldSchema' = r.schema
            /\ pc' = "parseNew"
            /\ error' = error
       ELSE /\ error' = r.error
            /\ pc' = "catch"
            /\ oldSchema' = oldSchema
    /\ UNCHANGED <<oldStatement, newStatement, newSchema, commands, oldTableMatched,
                   newTableMatched, renameMap, tableReplacements, idx, result>>

\* const newSchema = parseSchema(newStatement)
ParseNew ==
    /\ pc = "parseNew"
    /\ LET r == parseSchema(newStatement) IN
       IF r.ok
       THEN /\ newSchema' = r.schema
            /\ pc' = "validate"
            /\ error' = error
       ELSE /\ error' = r.error
            /\ pc' = "catch"
            /\ newSchema' = newSchema
    /\ UNCHANGED <<oldStatement, newStatement, oldSchema, commands, oldTableMatched,
                   newTableMatched, renameMap, tableReplacements, idx, result>>

\* lines 22-36: the two early returns, or the call of generateSchemaAltersInternal
Validate ==
    /\ pc = "validate"
    /\ IF IsEmptySchema(oldSchema) /\ NonBlank(oldStatement)
       THEN result' = <<OldInvalidLine>> /\ pc' = "done"
       ELSE IF IsEmptySchema(newSchema) /\ NonBlank(newStatement)
       THEN result' = <<NewInvalidLine>> /\ pc' = "done"
       ELSE result' = result /\ pc' = GotoTypes
    /\ idx' = 1
    /\ UNCHANGED <<oldStatement, newStatement, oldSchema, newSchema, commands, oldTableMatched,
                   newTableMatched, renameMap, tableReplacements, error>>

\* one iteration of the loop of lines 52-76
TypeStep ==
    /\ pc = "types"
    /\ LET r == TypeChange(oldSchema.types, newSchema.types[idx]) IN
       IF r.raised
       THEN /\ error' = TypeErrorMessage
            /\ pc' = "catch"
            /\ UNCHANGED <<commands, idx>>
       ELSE /\ commands' = commands \o r.cmds
            /\ error' = error
            /\ IF r.stop \/ idx = Len(newSchema.types)
               THEN pc' = GotoRenames /\ idx' = 1
               ELSE pc' = pc /\ idx' = idx + 1
    /\ UNCHANGED <<oldStatement, newStatement, oldSchema, newSchema, oldTableMatched,
                   newTableMatched, renameMap, tableReplacements, result>>

\* one iteration of the loop of lines 100-130
RenameStep ==
    /\ pc = "renames"
    /\ LET st == RenameOne([renameMap |-> renameMap, oldMatched |-> oldTableMatched,
                            newMatched |-> newTableMatched, cmds |-> commands],
                           oldSchema.tables[idx], newSchema.tables)
       IN  /\ renameMap' = st.renameMap
           /\ oldTableMatched' = st.oldMatched
           /\ newTableMatched' = st.newMatched
           /\ commands' = st.cmds
    /\ IF idx = Len(oldSchema.tables)
       THEN pc' = GotoColumns /\ idx' = 1
       ELSE pc' = pc /\ idx' = idx + 1
    /\ UNCHANGED <<oldStatement, newStatement, oldSchema, newSchema, tableReplacements,
                   error, result>>

\* one iteration of the loop of lines 133-238
ColumnStep ==
    /\ pc = "columns"
    /\ LET newTable == newSchema.tables[idx]
           r == IF newTable.name \in newTableMatched
                THEN TableChanges(newTable.name,
                                  ColumnsOf(oldSchema.tables, OldTableOf(renameMap, newTable.name)),
                                  newTable.columns)
                ELSE [cmds |-> <<>>, raised |-> FALSE, error |-> <<>>]
       IN  /\ commands' = commands \o r.cmds
           /\ IF r.raised
              THEN error' = r.error /\ pc' = "catch" /\ idx' = idx
              ELSE /\ error' = error
                   /\ IF idx = Len(newSchema.tables)
                      THEN pc' = "createTypes" /\ idx' = 1
                      ELSE pc' = pc /\ idx' = idx + 1
    /\ UNCHANGED <<oldStatement, newStatement, oldSchema, newSchema, oldTableMatched,
                   newTableMatched, renameMap, tableReplacements, result>>

\* the loop of lines 241-249
CreateTypes ==
    /\ pc = "createTypes"
    /\ commands' = commands \o NewTypeLines(oldSchema.types, newSchema.types)
    /\ pc' = "replacements"
    /\ UNCHANGED <<oldStatement, newStatement, oldSchema, newSchema, oldTableMatched,
                   newTableMatched, renameMap, tableReplacements, idx, error, result>>

\* the loop of lines 252-279
DetectReplacements ==
    /\ pc = "replacements"
    /\ tableReplacements' = Replacements(oldSchema.tables, newSchema.tables,
                                         oldTableMatched, newTableMatched)
    /\ pc' = "createTables"
    /\ UNCHANGED <<oldStatement, newStatement, oldSchema, newSchema, commands, oldTableMatched,
                   newTableMatched, renameMap, idx, error, result>>

\* a table loop that puts its lines ahead of the lines pushed before it
CreateTablesFirst ==
    /\ pc = "createTables"
    /\ commands' = NewTableLines(oldSchema.tables, newSchema.tables,
                                 newTableMatched, tableReplacements) \o commands
    /\ pc' = "drops"
    /\ UNCHANGED <<oldStatement, newStatement, oldSchema, newSchema, oldTableMatched,
                   newTableMatched, renameMap, tableReplacements, idx, error, result>>

\* the loop of lines 282-325
CreateTables ==
    /\ pc = "createTables"
    /\ commands' = commands \o NewTableLines(oldSchema.tables, newSchema.tables,
                                             newTableMatched, tableReplacements)
    /\ pc' = "drops"
    /\ UNCHANGED <<oldStatement, newStatement, oldSchema, newSchema, oldTableMatched,
                   newTableMatched, renameMap, tableReplacements, idx, error, result>>

\* the loop of lines 328-333, and the return of the list through line 36
DropTables ==
    /\ pc = "drops"
    /\ commands' = commands \o DropLines(oldSchema.tables, oldTableMatched)
    /\ result' = commands'
    /\ pc' = "done"
    /\ UNCHANGED <<oldStatement, newStatement, oldSchema, newSchema, oldTableMatched,
                   newTableMatched, renameMap, tableReplacements, idx, error>>

\* lines 37-40
Catch ==
    /\ pc = "catch"
    /\ result' = CatchResult(commands, error)
    /\ pc' = "done"
    /\ UNCHANGED <<oldStatement, newStatement, oldSchema, newSchema, commands, oldTableMatched,
                   newTableMatched, renameMap, tableReplacements, idx, error>>

Init ==
    /\ \E input \in Inputs : oldStatement = input[1] /\ newStatement = input[2]
    /\ pc = "parseOld"
    /\ oldSchema = EmptySchema
    /\ newSchema = EmptySchema
    /\ commands = <<>>
    /\ oldTableMatched = {}
    /\ newTableMatched = {}
    /\ renameMap = <<>>
    /\ tableReplacements = <<>>
    /\ idx = 1
    /\ error = <<>>
    /\ result = <<>>

Next ==
    \/ ParseOld
    \/ ParseNew
    \/ Validate
    \/ TypeStep
    \/ RenameStep
    \/ ColumnStep
    \/ CreateTypes
    \/ DetectReplacements
    \/ CreateTables
    \/ DropTables
    \/ Catch

Spec == Init /\ [][Next]_vars

(***************************************************************************)
(* columnSimilarity on its own: the function is applied to two column      *)
(* lists drawn from SimilarityLists (empty lists and repeated names        *)
(* included, which parseSchema never stores but the function accepts),     *)
(* then to the same lists swapped. The two lists are the columns of the    *)
(* one table of oldSchema and of newSchema; result holds the first score   *)
(* and commands the second.                                                *)
(***************************************************************************)
\* longest list of the exhaustive part of SimilarityLists
MaxSimLen == 2

Column(name) == [name |-> name, type |-> <<"INT">>, notNull |-> FALSE, defaultValue |-> <<>>]

ColumnsNamed(names) == [i \in 1..Len(names) |-> Column(names[i])]

SimilarityLists ==
    {<<>>}
      \cup {ColumnsNamed(names) : names \in SeqsUpTo({"a", "b", "c"}, MaxSimLen)}
      \cup {ColumnsNamed(SubSeq(ColumnNames, from, to)) :
               from \in {1, 3, 4}, to \in {3, 5, 7, 10}}
      \cup {ColumnsNamed(<<"a", "b", "c", "a", "b">>), ColumnsNamed(<<"a", "a", "a">>)}

SimInit ==
    /\ \E oldCols \in SimilarityLists, newCols \in SimilarityLists :
          /\ oldSchema = [types |-> <<>>, tables |-> <<[name |-> "p", columns |-> oldCols]>>]
          /\ newSchema = [types |-> <<>>, tables |-> <<[name |-> "r", columns |-> newCols]>>]
    /\ pc = "similarity"
    /\ oldStatement = <<>>
    /\ newStatement = <<>>
    /\ commands = <<>>
    /\ oldTableMatched = {}
    /\ newTableMatched = {}
    /\ renameMap = <<>>
    /\ tableReplacements = <<>>
    /\ idx = 1
    /\ error = <<>>
    /\ result = <<>>

\* const score = columnSimilarity(oldColumns, newColumns)
SimilarityCall ==
    /\ pc = "similarity"
    /\ result' = columnSimilarity(oldSchema.tables[1].columns, newSchema.tables[1].columns)
    /\ pc' = "swapped"
    /\ UNCHANGED <<oldStatement, newStatement, oldSchema, newSchema, commands, oldTableMatched,
                   newTableMatched, renameMap, tableReplacements, idx, error>>

\* the same call with the two arguments swapped
SimilaritySwappedCall ==
    /\ pc = "swapped"
    /\ commands' = columnSimilarity(newSchema.tables[1].columns, oldSchema.tables[1].columns)
    /\ pc' = "compared"
    /\ UNCHANGED <<oldStatement, newStatement, oldSchema, newSchema, oldTableMatched,
                   newTableMatched, renameMap, tableReplacements, idx, error, result>>

SimNext ==
    \/ SimilarityCall
    \/ SimilaritySwappedCall

SimSpec == SimInit /\ [][SimNext]_vars

(***************************************************************************)
(* Vocabulary of the properties.                                           *)
(***************************************************************************)
\* both texts parsed, no early return: generateSchemaAltersInternal was called
DifferCalled ==
    /\ parseSchema(oldStatement).ok
    /\ parseSchema(newStatement).ok
    /\ ~(IsEmptySchema(parseSchema(oldStatement).schema) /\ NonBlank(oldStatement))
    /\ ~(IsEmptySchema(parseSchema(newStatement).schema) /\ NonBlank(newStatement))

\* generateSchemaAltersInternal returned its list
DifferReturned == pc = "done" /\ error = <<>> /\ DifferCalled

IsErrorLine(line) == line # <<>> /\ line[1] = "-- ERROR:"

IsRenameLine(line) == Len(line) = 5 /\ line[1] = "ALTER TABLE" /\ line[3] = "RENAME TO"

IsColumnLine(line) ==
    /\ Len(line) >= 4
    /\ line[1] = "ALTER TABLE"
    /\ line[3] \in {"ADD COLUMN", "ALTER COLUMN", "DROP COLUMN"}

IsInsertLine(line) == line # <<>> /\ line[1] = "INSERT INTO"

IsDropTableLine(line) == Len(line) = 3 /\ line[1] = "DROP TABLE"

IsCautionLine(line) == line # <<>> /\ line[1] = "-- CAUTION:"

Occurrences(list, line) == Cardinality({i \in 1..Len(list) : list[i] = line})

(***************************************************************************)
(* C1. generateSchemaAlters never raises: a raised error is always caught  *)
(* and the call returns a list. Whenever parsing the old text, parsing the *)
(* new text or the diff raised, the returned list is exactly the one line  *)
(* '-- ERROR: <message>' of the raised error, and none of the commands     *)
(* pushed before the failure is in it.                                     *)
(***************************************************************************)
C1_ErrorsBecomeOneLine ==
    /\ pc = "catch" => ENABLED Catch
    /\ (pc = "done" /\ ~parseSchema(oldStatement).ok)
          => result = <<ErrorLine(parseSchema(oldStatement).error)>>
    /\ (pc = "done" /\ parseSchema(oldStatement).ok /\ ~parseSchema(newStatement).ok)
          => result = <<ErrorLine(parseSchema(newStatement).error)>>
    /\ (pc = "done" /\ error # <<>>)
          => /\ Len(result) = 1
             /\ IsErrorLine(result[1])
             /\ SubSeq(result[1], 2, Len(result[1])) = error
             /\ \A i \in 1..Len(commands) : commands[i] \notin Range(result)

\* the diff raised after it had pushed commands, and the call has returned
C1_Witness == pc = "done" /\ error # <<>> /\ commands # <<>>

\* the column-level lines of a list that name the table, in order
ColumnLinesOf(list, tableName) ==
    SelectSeq(list, LAMBDA line : IsColumnLine(line) /\ line[2] = tableName)

(***************************************************************************)
(* C2. Self-diff is empty: when both texts are the same text, the list the *)
(* differencer returns is empty, whatever types, tables and column lists   *)
(* the parser accepted.                                                    *)
(***************************************************************************)
C2_SelfDiffIsEmpty ==
    (pc = "done" /\ DifferCalled /\ oldStatement = newStatement) => result = <<>>

(***************************************************************************)
(* C3. Identity match has priority over rename search: no                  *)
(* 'ALTER TABLE x RENAME TO y' is ever pushed with y a table name of the   *)
(* old schema, and in a returned list the column-level commands of a new   *)
(* table whose name exists in the old schema are those of the comparison   *)
(* with the same-named old table.                                          *)
(***************************************************************************)
C3_IdentityBeforeRename ==
    /\ \A i \in 1..Len(commands) :
          IsRenameLine(commands[i]) => ~Has(oldSchema.tables, commands[i][4])
    /\ DifferReturned =>
          \A i \in 1..Len(newSchema.tables) :
             LET newTable == newSchema.tables[i] IN
             Has(oldSchema.tables, newTable.name) =>
                ColumnLinesOf(result, newTable.name)
                   = ColumnLinesOf(TableChanges(newTable.name,
                                                Get(oldSchema.tables, newTable.name).columns,
                                                newTable.columns).cmds,
                                   newTable.name)

\* number of column names two tables share, and the ratio intersection / union
SharedNames(oldTable, newTable) ==
    Cardinality(ColNames(oldTable.columns) \cap ColNames(newTable.columns))

OverlapRatio(oldTable, newTable) ==
    <<SharedNames(oldTable, newTable),
      Cardinality(ColNames(oldTable.columns) \cup ColNames(newTable.columns))>>

\* the new tables already matched when the i-th old table is processed, read off
\* the schemas and the RENAME lines of a list: the same-named tables and the
\* rename targets of the old tables declared before it
MatchedBefore(list, i) ==
    LET earlier == {oldSchema.tables[j].name : j \in 1..(i - 1)} IN
    {name \in earlier : Has(newSchema.tables, name)}
      \cup {list[k][4] : k \in {k \in 1..Len(list) : IsRenameLine(list[k]) /\ list[k][2] \in earlier}}

\* the list holds the rename exactly once, and every column-level command of the
\* table comes after it and names the new table
RenamedIn(list, oldName, newName) ==
    /\ Occurrences(list, RenameLine(oldName, newName)) = 1
    /\ \A j \in 1..Len(list) :
          (IsColumnLine(list[j]) /\ list[j][2] \in {oldName, newName})
             => /\ list[j][2] = newName
                /\ \E k \in 1..(j - 1) : list[k] = RenameLine(oldName, newName)

(***************************************************************************)
(* C4 as stated. For every old table absent by name from the new schema,   *)
(* if some new table shares at least 3 column names with it and no other   *)
(* new table scores higher, the list the diff yields holds 'ALTER TABLE    *)
(* <old> RENAME TO <new>;' exactly once and every column-level command of  *)
(* the table comes after it and names the new table.                       *)
(***************************************************************************)
C4_RenameWheneverThreeShared ==
    DifferReturned =>
       \A i \in 1..Len(oldSchema.tables), n \in 1..Len(newSchema.tables) :
          LET oldTable == oldSchema.tables[i]
              newTable == newSchema.tables[n]
          IN  (/\ ~Has(newSchema.tables, oldTable.name)
               /\ SharedNames(oldTable, newTable) >= 3
               /\ \A m \in 1..Len(newSchema.tables) :
                     ~Less(columnSimilarity(oldTable.columns, newTable.columns),
                           columnSimilarity(oldTable.columns, newSchema.tables[m].columns)))
              => RenamedIn(result, oldTable.name, newTable.name)

\* the premise of the amended C4 for the i-th old table and the n-th new table
RenameExpected(list, i, n) ==
    LET oldTable == oldSchema.tables[i]
        newTable == newSchema.tables[n]
        free == {m \in 1..Len(newSchema.tables) :
                    newSchema.tables[m].name \notin MatchedBefore(list, i)}
    IN  /\ ~Has(newSchema.tables, oldTable.name)
        /\ SharedNames(oldTable, newTable) >= 3
        /\ n \in free
        /\ ~Less(OverlapRatio(oldTable, newTable), <<1, 2>>)
        /\ \A m \in free :
              /\ m < n => Less(columnSimilarity(oldTable.columns, newSchema.tables[m].columns),
                               OverlapRatio(oldTable, newTable))
              /\ m > n => ~Less(OverlapRatio(oldTable, newTable),
                                columnSimilarity(oldTable.columns, newSchema.tables[m].columns))

(***************************************************************************)
(* C4 amended. For every old table absent by name from the new schema: if  *)
(* a new table that is not yet matched when the old table is processed     *)
(* shares at least 3 column names with it, their overlap ratio is at       *)
(* least 1/2, and among the new tables not yet matched none scores higher  *)
(* and none declared earlier scores as high, then every list the           *)
(* differencer returns holds 'ALTER TABLE <old> RENAME TO <new>;' exactly  *)
(* once, and every column-level command of the table comes after it and    *)
(* names the new table.                                                    *)
(***************************************************************************)
C4_RenameDetection ==
    DifferReturned =>
       \A i \in 1..Len(oldSchema.tables), n \in 1..Len(newSchema.tables) :
          RenameExpected(result, i, n)
             => RenamedIn(result, oldSchema.tables[i].name, newSchema.tables[n].name)

\* a returned list with an expected rename followed by column-level commands
C4_Witness ==
    /\ DifferReturned
    /\ \E i \in 1..Len(oldSchema.tables), n \in 1..Len(newSchema.tables) :
          /\ RenameExpected(result, i, n)
          /\ ColumnLinesOf(result, newSchema.tables[n].name) # <<>>

\* the <<table, column>> pairs of the new schema that no migration can add: the
\* table is matched by identity or by rename, the column is NOT NULL, has no
\* default and has no same-named column in the corresponding old table
FatalColumns ==
    LET st == RenameLoop(oldSchema.tables, newSchema.tables) IN
    {f \in UNION {{<<newSchema.tables[i].name, newSchema.tables[i].columns[k]>> :
                      k \in 1..Len(newSchema.tables[i].columns)} :
                  i \in 1..Len(newSchema.tables)} :
        /\ f[1] \in st.newMatched
        /\ f[2].notNull
        /\ f[2].defaultValue = <<>>
        /\ ~HasCol(ColumnsOf(oldSchema.tables, OldTableOf(st.renameMap, f[1])), f[2].name)}

(***************************************************************************)
(* C5. Fatal NOT NULL error: whenever a matched new table has a NOT NULL   *)
(* column without default and without a same-named column in the           *)
(* corresponding old table, generateSchemaAlters returns exactly one line, *)
(* '-- ERROR: New column <newTable>.<column> is NOT NULL without default', *)
(* and no other line.                                                      *)
(***************************************************************************)
C5_FatalNotNull ==
    (pc = "done" /\ FatalColumns # {})
       => \E f \in FatalColumns : result = <<ErrorLine(NotNullMessage(f[1], f[2].name))>>

(***************************************************************************)
(* C10. The differencer raises for no two parsed schemas, except with      *)
(* 'New column <table>.<column> is NOT NULL without default'; in           *)
(* particular not when a type name is an enum in one schema and a          *)
(* composite in the other.                                                 *)
(***************************************************************************)
C10_OnlyNotNullRaises ==
    (error # <<>> /\ DifferCalled)
       => \E i \in 1..Len(newSchema.tables) :
             \E k \in 1..Len(newSchema.tables[i].columns) :
                error = NotNullMessage(newSchema.tables[i].name, newSchema.tables[i].columns[k].name)

\* the old table shares no column name with any table of the new schema
SharesNothing(oldTable) ==
    \A n \in 1..Len(newSchema.tables) : SharedNames(oldTable, newSchema.tables[n]) = 0

\* the list holds the caution comment of the table immediately followed by its
\* DROP TABLE, and no RENAME TO and no INSERT ... SELECT that refers to the table
DroppedOnly(list, tableName) ==
    /\ \E k \in 1..(Len(list) - 1) :
          list[k] = CautionLine(tableName) /\ list[k + 1] = DropTableLine(tableName)
    /\ \A j \in 1..Len(list) :
          /\ IsRenameLine(list[j]) => tableName \notin {list[j][2], list[j][4]}
          /\ IsInsertLine(list[j]) => tableName \notin {list[j][2], list[j][Len(list[j]) - 1]}

(***************************************************************************)
(* C6 as stated. Pure drop: for every old table that shares no column name *)
(* with any table of the new schema, the list the diff yields holds the    *)
(* caution comment and 'DROP TABLE <table>;' for it, and no RENAME TO and  *)
(* no INSERT ... SELECT that refers to it.                                 *)
(***************************************************************************)
C6_PureDropInEveryOutput ==
    DifferReturned
       => \A i \in 1..Len(oldSchema.tables) :
             SharesNothing(oldSchema.tables[i]) => DroppedOnly(result, oldSchema.tables[i].name)

(***************************************************************************)
(* C6 amended. Pure drop: for every old table that is absent by name from  *)
(* the new schema and shares no column name with any table of the new      *)
(* schema, every list the differencer returns holds the caution comment    *)
(* immediately followed by 'DROP TABLE <table>;' for it, and no RENAME TO  *)
(* and no INSERT ... SELECT that refers to it.                             *)
(***************************************************************************)
C6_PureDrop ==
    DifferReturned =>
       \A i \in 1..Len(oldSchema.tables) :
          (~Has(newSchema.tables, oldSchema.tables[i].name) /\ SharesNothing(oldSchema.tables[i]))
             => DroppedOnly(result, oldSchema.tables[i].name)

\* a returned list with a pure drop beside a table of the new schema
C6_Witness ==
    /\ DifferReturned
    /\ newSchema.tables # <<>>
    /\ \E i \in 1..Len(oldSchema.tables) :
          /\ ~Has(newSchema.tables, oldSchema.tables[i].name)
          /\ SharesNothing(oldSchema.tables[i])
          /\ DropTableLine(oldSchema.tables[i].name) \in Range(result)

\* the old tables of a list's drop section: neither present by name in the new
\* schema nor the source of a RENAME TO line of the list
Unmatched(list) ==
    SelectSeq(oldSchema.tables,
              LAMBDA t : /\ ~Has(newSchema.tables, t.name)
                         /\ \A k \in 1..Len(list) : ~(IsRenameLine(list[k]) /\ list[k][2] = t.name))

\* every DROP TABLE line of the list comes right after the caution comment of its table
DropsAreCautioned(list) ==
    \A k \in 1..Len(list) :
       IsDropTableLine(list[k]) => (k > 1 /\ list[k - 1] = CautionLine(list[k][2]))

EnumInBoth(newType) ==
    /\ newType.type = "enum"
    /\ Has(oldSchema.types, newType.name)
    /\ Get(oldSchema.types, newType.name).type = "enum"

IsAddValueLine(line, typeName) ==
    Len(line) = 7 /\ line[1] = "ALTER TYPE" /\ line[2] = typeName /\ line[3] = "ADD VALUE"

\* the values of the ADD VALUE lines of a list for the type, in order
AddedValues(list, typeName) ==
    LET lines == SelectSeq(list, LAMBDA line : IsAddValueLine(line, typeName))
    IN  [k \in 1..Len(lines) |-> lines[k][5]]

\* what one step pushed
Pushed == SubSeq(commands', Len(commands) + 1, Len(commands'))

(***************************************************************************)
(* C8 as stated. Enum mutation detection: when the type loop visits an     *)
(* enum type present in both schemas, it compares the values position by   *)
(* position up to the shorter of the two lists only: it pushes exactly one *)
(* 'Cannot modify existing enum value in <type>' comment per position      *)
(* below that length where the values differ and none for a position at or *)
(* beyond it, pushes ADD VALUE for no compared position, and does not halt.*)
(***************************************************************************)
C8_ComparedUpToShorter ==
    [][(pc = "types" /\ EnumInBoth(newSchema.types[idx]))
          => LET newType == newSchema.types[idx]
                 oldValues == Get(oldSchema.types, newType.name).values
                 shorter == Min(Len(oldValues), Len(newType.values))
             IN  /\ Occurrences(Pushed, EnumErrorLine(newType.name))
                       = Cardinality({i \in 1..shorter : oldValues[i] # newType.values[i]})
                 /\ AddedValues(Pushed, newType.name)
                       = SubSeq(newType.values, Len(oldValues) + 1, Len(newType.values))
                 /\ pc' # "catch"]_vars

(***************************************************************************)
(* C8 amended. Enum mutation detection: when the type loop visits an enum  *)
(* type present in both schemas, it compares the values at every position  *)
(* of the old list: it pushes exactly one 'Cannot modify existing enum     *)
(* value in <type>' comment per position of the old list where the new     *)
(* list has a different value or no value, and nothing else but one ADD    *)
(* VALUE per new value beyond the old length; it pushes ADD VALUE for no   *)
(* compared position, and does not halt.                                   *)
(***************************************************************************)
C8_EnumMutationDetection ==
    [][(pc = "types" /\ EnumInBoth(newSchema.types[idx]))
          => LET newType == newSchema.types[idx]
                 oldValues == Get(oldSchema.types, newType.name).values
                 differing == {i \in 1..Len(oldValues) :
                                  i > Len(newType.values) \/ oldValues[i] # newType.values[i]}
             IN  /\ Occurrences(Pushed, EnumErrorLine(newType.name)) = Cardinality(differing)
                 /\ AddedValues(Pushed, newType.name)
                       = SubSeq(newType.values, Len(oldValues) + 1, Len(newType.values))
                 /\ Len(Pushed) = Cardinality(differing) + Len(AddedValues(Pushed, newType.name))
                 /\ pc' # "catch"
                 /\ error' = <<>>]_vars

\* the type loop has pushed an error comment for an enum whose new list is
\* shorter than its old list and whose common positions agree
C8_Witness ==
    /\ pc \notin {"parseOld", "parseNew", "validate", "catch"}
    /\ \E i \in 1..Len(newSchema.types) :
          LET newType == newSchema.types[i] IN
          /\ EnumInBoth(newType)
          /\ Len(newType.values) < Len(Get(oldSchema.types, newType.name).values)
          /\ newType.values = SubSeq(Get(oldSchema.types, newType.name).values, 1, Len(newType.values))
          /\ EnumErrorLine(newType.name) \in Range(commands)

\* a is a prefix of b
IsPrefix(a, b) == Len(a) <= Len(b) /\ a = SubSeq(b, 1, Len(a))

\* the type loop breaks at the type: it is no enum in the new schema and its
\* definition is not the old one
LoopBreaksAt(newType) ==
    /\ newType.type # "enum"
    /\ Has(oldSchema.types, newType.name)
    /\ Get(oldSchema.types, newType.name).definition # newType.definition

(***************************************************************************)
(* C9 as stated. Enum append-only: for an enum type present in both        *)
(* schemas whose old value list is a prefix of the new one, the list the   *)
(* diff yields holds exactly one "ALTER TYPE <type> ADD VALUE '<v>';" per  *)
(* appended value, in the order of the new list, and no error comment for  *)
(* that type.                                                              *)
(***************************************************************************)
C9_AppendedValuesAlwaysAdded ==
    DifferReturned =>
       \A i \in 1..Len(newSchema.types) :
          LET newType == newSchema.types[i] IN
          (EnumInBoth(newType) /\ IsPrefix(Get(oldSchema.types, newType.name).values, newType.values))
             => /\ AddedValues(result, newType.name)
                      = SubSeq(newType.values,
                               Len(Get(oldSchema.types, newType.name).values) + 1,
                               Len(newType.values))
                /\ EnumErrorLine(newType.name) \notin Range(result)

(***************************************************************************)
(* C9 amended. Enum append-only: for an enum type present in both schemas  *)
(* whose old value list is a prefix of the new one, and before which, in   *)
(* the type order of the new schema, no type that is not an enum there has *)
(* a changed definition (the type loop stops at such a type), every list   *)
(* the differencer returns holds exactly one "ALTER TYPE <type> ADD VALUE  *)
(* '<v>';" per appended value, in the order of the new list, and no error  *)
(* comment for that type.                                                  *)
(***************************************************************************)
C9_EnumAppendOnly ==
    DifferReturned =>
       \A i \in 1..Len(newSchema.types) :
          LET newType == newSchema.types[i] IN
          (/\ EnumInBoth(newType)
           /\ IsPrefix(Get(oldSchema.types, newType.name).values, newType.values)
           /\ \A j \in 1..(i - 1) : ~LoopBreaksAt(newSchema.types[j]))
             => /\ AddedValues(result, newType.name)
                      = SubSeq(newType.values,
                               Len(Get(oldSchema.types, newType.name).values) + 1,
                               Len(newType.values))
                /\ EnumErrorLine(newType.name) \notin Range(result)

\* a returned list for an enum that gained values, visited after another type
C9_Witness ==
    /\ DifferReturned
    /\ \E i \in 2..Len(newSchema.types) :
          LET newType == newSchema.types[i] IN
          /\ EnumInBoth(newType)
          /\ IsPrefix(Get(oldSchema.types, newType.name).values, newType.values)
          /\ Len(newType.values) > Len(Get(oldSchema.types, newType.name).values)
          /\ \A j \in 1..(i - 1) : ~LoopBreaksAt(newSchema.types[j])
          /\ AddedValues(result, newType.name) # <<>>

RECURSIVE IsSubsequence(_, _)
\* the lines of sub occur in list, in the order of sub
IsSubsequence(sub, list) ==
    IF sub = <<>> THEN TRUE
    ELSE IF list = <<>> THEN FALSE
    ELSE IF Head(sub) = Head(list) THEN IsSubsequence(Tail(sub), Tail(list))
    ELSE IsSubsequence(sub, Tail(list))

\* the pieces that make a line a DROP of something
DropPieces ==
    {"DROP TABLE", "DROP COLUMN", "DROP DEFAULT", "DROP NOT NULL", "DROP CONSTRAINT IF EXISTS"}

MatchedPairs ==
    {pair \in Range(Keys(oldSchema.tables)) \X Range(Keys(newSchema.tables)) :
        /\ pair[2] \in newTableMatched
        /\ \/ pair \in Range(renameMap)
           \/ pair[1] = pair[2]}

\* the positions of the ALTER COLUMN lines of a list for a column, of the given kinds
AlterColumnLines(list, tableName, colName, kinds) ==
    {i \in 1..Len(list) :
        /\ Len(list[i]) >= 5
        /\ list[i][1] = "ALTER TABLE" /\ list[i][2] = tableName
        /\ list[i][3] = "ALTER COLUMN" /\ list[i][4] = colName
        /\ list[i][5] \in kinds}

\* no column name is declared twice in the list
DistinctNames(columns) ==
    \A i, j \in 1..Len(columns) : columns[i].name = columns[j].name => i = j

\* C12 for one old column and one new column of the same name and type text
DefaultChangeOnly(list, tableName, oldCol, newCol) ==
    LET defaults == AlterColumnLines(list, tableName, newCol.name, {"SET DEFAULT", "DROP DEFAULT"})
        types == AlterColumnLines(list, tableName, newCol.name, {"TYPE"})
    IN  IF newCol.defaultValue # oldCol.defaultValue
        THEN /\ Cardinality(defaults) = 1
             /\ \A i \in defaults :
                   list[i] = IF newCol.defaultValue # <<>>
                             THEN <<"ALTER TABLE", tableName, "ALTER COLUMN", newCol.name, "SET DEFAULT">>
                                     \o newCol.defaultValue \o <<";">>
                             ELSE <<"ALTER TABLE", tableName, "ALTER COLUMN", newCol.name,
                                    "DROP DEFAULT", ";">>
        ELSE defaults = {} /\ types = {}

(***************************************************************************)
(* C12. Default change with unchanged type: for every column present under *)
(* the same name in a matched table pair whose type text is unchanged, the *)
(* returned list holds exactly one default command when the defaults       *)
(* differ ('SET DEFAULT <new>' if the new column has a default, 'DROP      *)
(* DEFAULT' if it has none) and no default command and no TYPE command     *)
(* when the defaults are equal.                                            *)
(***************************************************************************)
C12_DefaultChange ==
    DifferReturned =>
       \A pair \in MatchedPairs :
          LET oldColumns == Get(oldSchema.tables, pair[1]).columns
              newColumns == Get(newSchema.tables, pair[2]).columns
          IN  \A i \in 1..Len(oldColumns), j \in 1..Len(newColumns) :
                 (oldColumns[i].name = newColumns[j].name /\ oldColumns[i].type = newColumns[j].type)
                    => DefaultChangeOnly(result, pair[2], oldColumns[i], newColumns[j])

\* the same restricted to the tables that declare no column name twice (it holds)
DefaultChangeWithDistinctNames ==
    DifferReturned =>
       \A pair \in MatchedPairs :
          LET oldColumns == Get(oldSchema.tables, pair[1]).columns
              newColumns == Get(newSchema.tables, pair[2]).columns
          IN  (DistinctNames(oldColumns) /\ DistinctNames(newColumns)) =>
              \A i \in 1..Len(oldColumns), j \in 1..Len(newColumns) :
                 (oldColumns[i].name = newColumns[j].name /\ oldColumns[i].type = newColumns[j].type)
                    => DefaultChangeOnly(result, pair[2], oldColumns[i], newColumns[j])

\* the first pieces of the executable commands
CommandKeywords ==
    {"ALTER TYPE", "ALTER TABLE", "CREATE TYPE", "CREATE TABLE", "INSERT INTO", "DROP TABLE"}

\* an executable command: it begins with a command keyword and ends with ';'
IsCommand(line) == line # <<>> /\ line[1] \in CommandKeywords /\ line[Len(line)] = ";"

\* the comment "-- Migrate data from '<old>' to '<new>'"
IsMigrateComment(line) == Len(line) = 4 /\ line[1] = "-- Migrate data from" /\ line[3] = "to"

(***************************************************************************)
(* C13 as stated. Output line kinds: every string in every result of       *)
(* generateSchemaAlters is one of exactly three kinds: it begins with      *)
(* '-- ERROR:', or it begins with '-- CAUTION:', or it is an executable    *)
(* command that ends with the statement terminator ';'.                    *)
(***************************************************************************)
C13_ThreeLineKinds ==
    pc = "done" =>
       \A i \in 1..Len(result) :
          IsErrorLine(result[i]) \/ IsCautionLine(result[i]) \/ IsCommand(result[i])

(***************************************************************************)
(* C13 amended. Output line kinds: every string in every result of         *)
(* generateSchemaAlters is one of exactly four kinds: it begins with       *)
(* '-- ERROR:', or it begins with '-- CAUTION:', or it is the comment      *)
(* "-- Migrate data from '<old>' to '<new>'" that follows the CREATE TABLE *)
(* of a replacement table, or it is an executable command that ends with   *)
(* the statement terminator ';'.                                           *)
(***************************************************************************)
C13_LineKinds ==
    pc = "done" =>
       \A i \in 1..Len(result) :
          LET kinds == {k \in {"error", "caution", "migrate", "command"} :
                           \/ k = "error" /\ IsErrorLine(result[i])
                           \/ k = "caution" /\ IsCautionLine(result[i])
                           \/ k = "migrate" /\ IsMigrateComment(result[i])
                                            /\ i > 1 /\ result[i - 1][1] = "CREATE TABLE"
                           \/ k = "command" /\ IsCommand(result[i])}
          IN  Cardinality(kinds) = 1

\* a result that holds a migration comment, a caution comment and commands
C13_Witness ==
    /\ pc = "done"
    /\ \E i, j, k \in 1..Len(result) :
          IsMigrateComment(result[i]) /\ IsCautionLine(result[j]) /\ IsDropTableLine(result[k])

RECURSIVE Parens(_, _)
\* an independent count of the '(' (side = "(") or ')' characters of a text
Parens(text, side) ==
    IF text = <<>> THEN 0
    ELSE Parens(SubSeq(text, 1, Len(text) - 1), side)
           + (IF side = "(" THEN OpenParens(text[Len(text)]) ELSE CloseParens(text[Len(text)]))

UnbalancedMessage(open, close) ==
    <<"Unbalanced parentheses:", ToString(open), "opening,", ToString(close), "closing">>

\* the text without its '--' comment lines that end in a newline
WithoutComments(text) == SelectSeq(text, LAMBDA st : st.kind # "comment")

\* the parse of the text raises the message and builds no schema
RaisesOnParse(text, schema, message) ==
    /\ pc' = "catch"
    /\ error' = message
    /\ schema = EmptySchema

(***************************************************************************)
(* C14 as stated. Unbalanced parentheses: for every text passed to         *)
(* parseSchema in which the number of '(' characters differs from the      *)
(* number of ')' characters, parseSchema raises 'Unbalanced parentheses:   *)
(* <open> opening, <close> closing', where <open> and <close> equal an     *)
(* independent count of the '(' and ')' characters of that text, and it    *)
(* raises this before any statement is parsed.                             *)
(***************************************************************************)
C14_UnbalancedInWholeText ==
    [][/\ (pc = "parseOld" /\ Parens(oldStatement, "(") # Parens(oldStatement, ")"))
            => RaisesOnParse(oldStatement, oldSchema',
                             UnbalancedMessage(Parens(oldStatement, "("), Parens(oldStatement, ")")))
       /\ (pc = "parseNew" /\ Parens(newStatement, "(") # Parens(newStatement, ")"))
            => RaisesOnParse(newStatement, newSchema',
                             UnbalancedMessage(Parens(newStatement, "("), Parens(newStatement, ")")))]_vars

(***************************************************************************)
(* C14 amended. Unbalanced parentheses: for every text passed to           *)
(* parseSchema in which, once the '--' comment lines that end in a newline *)
(* are removed, the number of '(' characters differs from the number of    *)
(* ')' characters, parseSchema raises 'Unbalanced parentheses: <open>      *)
(* opening, <close> closing', where <open> and <close> equal an            *)
(* independent count of the '(' and ')' characters of the text without     *)
(* those comment lines (a last comment line that no newline ends is        *)
(* counted), and it raises this before any statement is parsed.            *)
(***************************************************************************)
C14_UnbalancedParentheses ==
    [][/\ LET text == WithoutComments(oldStatement) IN
          (pc = "parseOld" /\ Parens(text, "(") # Parens(text, ")"))
            => RaisesOnParse(oldStatement, oldSchema',
                             UnbalancedMessage(Parens(text, "("), Parens(text, ")")))
       /\ LET text == WithoutComments(newStatement) IN
          (pc = "parseNew" /\ Parens(text, "(") # Parens(text, ")"))
            => RaisesOnParse(newStatement, newSchema',
                             UnbalancedMessage(Parens(text, "("), Parens(text, ")")))]_vars

\* the error was raised for a text that also holds a parenthesis in a comment
\* line, or a statement that would fail on its own
C14_Witness ==
    /\ pc = "catch"
    /\ error # <<>> /\ error[1] = "Unbalanced parentheses:"
    /\ \E i \in 1..Len(oldStatement) :
          \/ oldStatement[i].kind = "comment" /\ oldStatement[i].vals # <<>>
          \/ oldStatement[i].kind = "badtable"

\* a text made only of '--' comment lines, the last one with or without a newline
CommentOnly(text) ==
    /\ text # <<>>
    /\ \A i \in 1..Len(text) :
          \/ text[i].kind = "comment"
          \/ text[i].kind = "tailcomment" /\ i = Len(text)

(***************************************************************************)
(* C15. Empty input is valid: for every text that is empty,                *)
(* whitespace-only, or made only of '--' line comments (with or without a  *)
(* newline after the last comment), parseSchema returns a schema whose     *)
(* types and tables are both empty and raises no error.                    *)
(***************************************************************************)
C15_EmptyInputIsValid ==
    [][/\ (pc = "parseOld" /\ (oldStatement = <<>> \/ CommentOnly(oldStatement)))
            => (pc' = "parseNew" /\ error' = <<>> /\ oldSchema' = EmptySchema)
       /\ (pc = "parseNew" /\ (newStatement = <<>> \/ CommentOnly(newStatement)))
            => (pc' = "validate" /\ error' = <<>> /\ newSchema' = EmptySchema)]_vars

\* the same for the texts whose last comment line ends in a newline (it holds)
EmptyInputIsValidWithNewline ==
    [][/\ (pc = "parseOld" /\ WithoutComments(oldStatement) = <<>>)
            => (pc' = "parseNew" /\ error' = <<>> /\ oldSchema' = EmptySchema)
       /\ (pc = "parseNew" /\ WithoutComments(newStatement) = <<>>)
            => (pc' = "validate" /\ error' = <<>> /\ newSchema' = EmptySchema)]_vars

(***************************************************************************)
(* C16. Empty enum is a parse error: for every type name N, parsing a      *)
(* statement 'CREATE TYPE N AS ENUM ();' (an ENUM with an empty            *)
(* parenthesised value list) raises "ENUM type 'N' has no values" and      *)
(* stores no type N in the schema. Stated for a text whose first statement *)
(* is the empty enum and whose parentheses are balanced.                   *)
(***************************************************************************)
C16_EmptyEnumIsParseError ==
    [][(/\ pc = "parseOld"
        /\ oldStatement # <<>>
        /\ oldStatement[1].kind = "enum" /\ oldStatement[1].vals = <<>>
        /\ Parens(WithoutComments(oldStatement), "(") = Parens(WithoutComments(oldStatement), ")"))
          => /\ pc' = "catch"
             /\ error' = <<"ENUM type", oldStatement[1].name, "has no values">>
             /\ ~Has(oldSchema'.types, oldStatement[1].name)]_vars

\* the new tables not yet matched, as positions of the new declaration order
FreeTargets == {n \in 1..Len(newSchema.tables) : newSchema.tables[n].name \notin newTableMatched}

\* the free new table of the highest column similarity with the old table, the
\* earliest in new declaration order among equal scores (a set of at most one)
BestTargets(oldTable) ==
    {n \in FreeTargets :
        \A m \in FreeTargets :
           LET scoreN == columnSimilarity(oldTable.columns, newSchema.tables[n].columns)
               scoreM == columnSimilarity(oldTable.columns, newSchema.tables[m].columns)
           IN  ~Less(scoreN, scoreM) /\ (m < n => Less(scoreM, scoreN))}

\* no two RENAME TO lines of the list share their source or their target
RenamesAreOneToOne(list) ==
    \A i, j \in 1..Len(list) :
       (IsRenameLine(list[i]) /\ IsRenameLine(list[j])
          /\ (list[i][2] = list[j][2] \/ list[i][4] = list[j][4])) => i = j

(***************************************************************************)
(* C17. Rename selection: old tables absent by name are processed in old   *)
(* declaration order; for each, the rename target is the new table, among  *)
(* those not yet matched at that moment, with the highest column           *)
(* similarity (the earliest in new declaration order among equal scores),  *)
(* and the rename is recorded if and only if that score is >= 0.5. Each    *)
(* old table is the source of at most one RENAME TO and each new table the *)
(* target of at most one.                                                  *)
(***************************************************************************)
C17_RenameSelection ==
    /\ [](RenamesAreOneToOne(commands) /\ RenamesAreOneToOne(result))
    /\ [][pc = "renames" =>
            LET oldTable == oldSchema.tables[idx]
                chosen == {n \in BestTargets(oldTable) :
                              ~Less(columnSimilarity(oldTable.columns, newSchema.tables[n].columns),
                                    <<1, 2>>)}
            IN  /\ (pc' = "renames" => idx' = idx + 1)
                /\ (pc' # "renames" => idx = Len(oldSchema.tables))
                /\ IF Has(newSchema.tables, oldTable.name) \/ chosen = {}
                   THEN renameMap' = renameMap /\ Pushed = <<>>
                   ELSE \E n \in chosen :
                           /\ renameMap' = Append(renameMap, <<oldTable.name, newSchema.tables[n].name>>)
                           /\ Pushed = << <<"ALTER TABLE", oldTable.name, "RENAME TO",
                                            newSchema.tables[n].name, ";">> >>]_vars

\* a rename was recorded for the second old table, with two new tables to choose from
C17_Witness ==
    /\ pc \notin {"parseOld", "parseNew", "validate", "types", "renames", "catch"}
    /\ Len(oldSchema.tables) = 2 /\ Len(newSchema.tables) = 2
    /\ \E k \in 1..Len(renameMap) : renameMap[k][1] = oldSchema.tables[2].name

\* the positions of a column list that hold the first occurrence of their name
FirstOccurrences(cols) ==
    {i \in 1..Len(cols) : \A j \in 1..(i - 1) : cols[j].name # cols[i].name}

\* the reference function of C18, as a fraction <<numerator, denominator>>
SimilarityReference(oldCols, newCols) ==
    IF oldCols = <<>> /\ newCols = <<>> THEN <<1, 1>>
    ELSE IF oldCols = <<>> \/ newCols = <<>> THEN <<0, 1>>
    ELSE LET I == Cardinality({i \in FirstOccurrences(oldCols) :
                                  \E j \in 1..Len(newCols) : newCols[j].name = oldCols[i].name})
             U == Cardinality(FirstOccurrences(oldCols))
                    + Cardinality({j \in FirstOccurrences(newCols) :
                                      \A i \in 1..Len(oldCols) : oldCols[i].name # newCols[j].name})
         IN  IF I >= 3 \/ 10 * I >= 7 * U THEN <<I, U>> ELSE <<0, 1>>

\* two fractions of positive denominators are the same number
SameNumber(a, b) == a[1] * b[2] = b[1] * a[2]

(***************************************************************************)
(* C18. columnSimilarity(oldCols, newCols) equals the reference function   *)
(* for all column lists (duplicate names included): 1 if both lists are    *)
(* empty; 0 if exactly one is empty; otherwise, with I the size of the     *)
(* intersection and U the size of the union of the two sets of column      *)
(* names, I/U when I >= 3 or I/U >= 0.7, and 0 otherwise. The result is    *)
(* always in [0,1] and is the same when the two arguments are swapped.     *)
(***************************************************************************)
C18_SimilarityIsReference ==
    /\ pc \in {"swapped", "compared"} =>
          /\ SameNumber(result, SimilarityReference(oldSchema.tables[1].columns,
                                                    newSchema.tables[1].columns))
          /\ result[2] > 0 /\ result[1] <= result[2]
    /\ pc = "compared" => SameNumber(commands, result)

\* the score of two lists that repeat names, share three and stay below 0.7
C18_Witness ==
    /\ pc = "compared"
    /\ result = <<3, 5>>
    /\ FirstOccurrences(oldSchema.tables[1].columns) # 1..Len(oldSchema.tables[1].columns)

\* the <<old column, new column>> pairs of a matched table pair that bear the
\* same name, for the names each of the two tables declares once
ColumnPairs(pair) ==
    LET oldColumns == Get(oldSchema.tables, pair[1]).columns
        newColumns == Get(newSchema.tables, pair[2]).columns
    IN  {cols \in Range(oldColumns) \X Range(newColumns) :
            /\ cols[1].name = cols[2].name
            /\ Cardinality({i \in 1..Len(oldColumns) : oldColumns[i].name = cols[1].name}) = 1
            /\ Cardinality({j \in 1..Len(newColumns) : newColumns[j].name = cols[2].name}) = 1}

\* C19 for the TYPE command at position k of the list
DefaultsAround(list, k, tableName, oldCol, newCol) ==
    LET drops == AlterColumnLines(list, tableName, newCol.name, {"DROP DEFAULT"})
        sets == AlterColumnLines(list, tableName, newCol.name, {"SET DEFAULT"})
    IN  /\ (k - 1 \in drops) <=> (oldCol.defaultValue # <<>>)
        /\ (k + 1 \in sets) <=> (newCol.defaultValue # <<>>)
        /\ (k + 1 \in sets) =>
              list[k + 1] = <<"ALTER TABLE", tableName, "ALTER COLUMN", newCol.name, "SET DEFAULT">>
                               \o newCol.defaultValue \o <<";">>
        /\ \A m \in sets : m > k

DropPkeyLines(list, tableName) ==
    {i \in 1..Len(list) : list[i] = <<"ALTER TABLE", tableName, "DROP CONSTRAINT IF EXISTS",
                                       tableName, "_pkey", ";">>}

\* the positions of the lines that add a primary key on the column
AddPkeyLines(list, tableName, colName) ==
    {i \in 1..Len(list) : list[i] = <<"ALTER TABLE", tableName, "ADD PRIMARY KEY",
                                       "(", colName, ")", ";">>}

\* the type text ends with or holds the PRIMARY KEY qualifier
CarriesPrimaryKey(type) ==
    \E i \in 1..(Len(type) - 1) : type[i] = "PRIMARY" /\ type[i + 1] = "KEY"

(***************************************************************************)
(* C20. Primary-key qualifier on a type change: when a column's type       *)
(* changes (a column name that each of the two tables of a matched pair    *)
(* declares once), 'DROP CONSTRAINT IF EXISTS <table>_pkey' is emitted     *)
(* exactly when the old type carries the PRIMARY KEY qualifier and the new *)
(* type does not, and 'ADD PRIMARY KEY (<column>)' exactly when the new    *)
(* type carries it and the old type did not; when both old and new types   *)
(* carry the qualifier, neither command is emitted. The returned list      *)
(* holds one DROP CONSTRAINT line of the table per column that loses the   *)
(* qualifier.                                                              *)
(***************************************************************************)
C20_PrimaryKeyOnTypeChange ==
    DifferReturned =>
       \A pair \in MatchedPairs :
          LET changed == {cols \in ColumnPairs(pair) : cols[1].type # cols[2].type} IN
          /\ Cardinality(DropPkeyLines(result, pair[2]))
                = Cardinality({cols \in changed : /\ CarriesPrimaryKey(cols[1].type)
                                                   /\ ~CarriesPrimaryKey(cols[2].type)})
          /\ \A cols \in changed :
                (AddPkeyLines(result, pair[2], cols[2].name) # {})
                   <=> (CarriesPrimaryKey(cols[2].type) /\ ~CarriesPrimaryKey(cols[1].type))

\* the phase of an output line, in the order the differencer's loops run
\* (0: a line of no phase)
Phase(line) ==
    IF line = <<>> THEN 0
    ELSE IF line[1] = "ALTER TYPE" \/ IsErrorLine(line) THEN 1
    ELSE IF IsRenameLine(line) THEN 2
    ELSE IF line[1] = "ALTER TABLE" THEN 3
    ELSE IF line[1] = "CREATE TYPE" THEN 4
    ELSE IF line[1] = "CREATE TABLE" \/ IsMigrateComment(line) \/ IsInsertLine(line) THEN 5
    ELSE IF IsCautionLine(line) \/ IsDropTableLine(line) THEN 6
    ELSE 0

\* the table an INSERT ... SELECT line reads from
InsertSource(line) == line[Len(line) - 1]

\* the phases never go back
PhasesAscend(list) ==
    \A i, j \in 1..Len(list) :
       i < j => Phase(list[i]) # 0 /\ Phase(list[i]) <= Phase(list[j]) /\ Phase(list[j]) # 0

\* a migration comment follows the CREATE TABLE of its target at once, and
\* the INSERT ... SELECT of the same two tables follows the comment at once
MigrationFollowsCreate(list) ==
    \A i \in 1..Len(list) :
       /\ IsMigrateComment(list[i]) =>
             /\ i > 1 /\ list[i - 1][1] = "CREATE TABLE" /\ list[i - 1][2] = list[i][4]
             /\ i < Len(list) /\ IsInsertLine(list[i + 1])
       /\ IsInsertLine(list[i]) =>
             /\ i > 1 /\ IsMigrateComment(list[i - 1])
             /\ list[i - 1][4] = list[i][2] /\ list[i - 1][2] = InsertSource(list[i])

\* CAUTION comments and DROP TABLE commands come in pairs
DropsArePaired(list) ==
    \A i \in 1..Len(list) :
       /\ IsCautionLine(list[i]) =>
             i < Len(list) /\ IsDropTableLine(list[i + 1]) /\ list[i + 1][2] = list[i][3]
       /\ IsDropTableLine(list[i]) => i > 1 /\ IsCautionLine(list[i - 1])

InPhaseOrder(list) ==
    /\ PhasesAscend(list)
    /\ MigrationFollowsCreate(list)
    /\ DropsArePaired(list)
    /\ \A i, j \in 1..Len(list) :
          list[i][1] = "CREATE TYPE" /\ list[j][1] = "CREATE TABLE" => i < j
    /\ \A i, j \in 1..Len(list) :
          /\ IsInsertLine(list[i]) /\ IsDropTableLine(list[j])
          /\ list[j][2] = InsertSource(list[i])
          => i < j

(***************************************************************************)
(* C21. Phase order of the output: in every command list the lines appear  *)
(* in the fixed phase order: enum ADD VALUE and type error comments, then  *)
(* all RENAME TO commands, then all column-level ALTER TABLE commands,     *)
(* then all CREATE TYPE commands, then CREATE TABLE commands (each         *)
(* immediately followed by its own migration comment and INSERT ... SELECT,*)
(* if any), then all CAUTION/DROP TABLE pairs. So every CREATE TYPE        *)
(* precedes every CREATE TABLE, and every INSERT ... SELECT reading an old *)
(* table precedes the DROP TABLE of that table. Stated of the list while   *)
(* it is built and of every result.                                        *)
(***************************************************************************)
C21_PhaseOrder ==
    /\ InPhaseOrder(commands)
    /\ pc = "done" => InPhaseOrder(result)

\* a result that holds a line of each of the six phases, with an
\* INSERT ... SELECT reading a table that the result drops
C21_Witness ==
    /\ pc = "done"
    /\ \A ph \in 1..6 : \E i \in 1..Len(result) : Phase(result[i]) = ph
    /\ \E i, j \in 1..Len(result) :
          /\ IsInsertLine(result[i]) /\ IsDropTableLine(result[j])
          /\ result[j][2] = InsertSource(result[i])

\* the names of the enum types that the new schema declares and the old one lacks
NewEnumNames ==
    {newSchema.types[i].name : i \in {k \in 1..Len(newSchema.types) :
                                        /\ newSchema.types[k].type = "enum"
                                        /\ ~Has(oldSchema.types, newSchema.types[k].name)}}

\* the line declares or retypes a column whose type begins with typeName
UsesType(line, typeName) ==
    \/ /\ Len(line) >= 5
       /\ line[1] = "ALTER TABLE" /\ line[3] = "ADD COLUMN" /\ line[5] = typeName
    \/ /\ Len(line) >= 6
       /\ line[1] = "ALTER TABLE" /\ line[3] = "ALTER COLUMN"
       /\ line[5] = "TYPE" /\ line[6] = typeName
    \/ /\ line # <<>> /\ line[1] = "CREATE TABLE"
       /\ \E k \in 5..Len(line) : line[k] = typeName /\ line[k - 2] \in {"(", ","}

(***************************************************************************)
(* C22. Type is created before it is used: in every output, the            *)
(* 'CREATE TYPE <T> AS ENUM' command of a type T that is new in the new    *)
(* schema precedes every emitted command that uses T as a column type,     *)
(* including 'ALTER TABLE ... ADD COLUMN <c> <T>' and 'ALTER TABLE ...      *)
(* ALTER COLUMN <c> TYPE <T>' on matched (existing or renamed) tables, not *)
(* only CREATE TABLE.                                                      *)
(***************************************************************************)
C22_TypeCreatedBeforeUse ==
    DifferReturned =>
       \A typeName \in NewEnumNames :
          \A i \in 1..Len(result) :
             UsesType(result[i], typeName) =>
                \E j \in 1..(i - 1) :
                   /\ result[j][1] = "CREATE TYPE"
                   /\ result[j][2] = typeName

====
